---- MODULE Spec2Model ----
(***************************************************************************)
(* Model of the dt5742 waveform pipeline.                                  *)
(*                                                                         *)
(* Part 1: the stage-1 converter (waveform_converter): ConvertBinaryToRoot,*)
(* ConvertBinaryToRootParallel with ReadChannelChunk reader threads, and   *)
(* ConvertAsciiToRoot, dispatched by main.                                 *)
(* Part 2: the extraction driver (parallel_analyze.sh): chunk dispatch,    *)
(* worker processes, missing-chunk check and the hadd merge.               *)
(*                                                                         *)
(* A channel file is a sequence of frames.  A frame is one record header   *)
(* followed by the payload the file really holds (`avail` samples of the   *)
(* `samples` the writer meant to store; avail < Len(samples) is a payload  *)
(* cut short by the end of the file).  A frame whose eventSize is invalid  *)
(* holds no payload of its own: the bytes after its header are the next    *)
(* frame.  Sample values are multiples of Scale so that the mean of up to  *)
(* MaxSamples of them is an exact integer.                                 *)
(***************************************************************************)
EXTENDS Integers, Sequences, FiniteSets, TLC

\* ---------------------------------------------------------------- bounds
MaxRecords == 2
MaxSamples == 2
MaxDevs == 1
MaxEntries == 11
MaxNoisyEvents == 6
MaxWaveSamples == 5
MaxRunEntries == 3
MaxRunSamples == 2
MaxMonRecords == 3
MaxEventNumber == 3
MaxDelivered == 4

\* ------------------------------------------------------ program constants
HEADER_WORDS == 8
HEADER_BYTES == HEADER_WORDS * 4
SizeofFloat == 4
kConsistencyWarnLimit == 20
TwoPow30 == 1073741824

\* ---------------------------------------------------------------- helpers
RECURSIVE Factorial(_)
Factorial(n) == IF n <= 1 THEN 1 ELSE n * Factorial(n - 1)

Scale == Factorial(MaxSamples)


MinInt(a, b) == IF a < b THEN a ELSE b
MaxInt(a, b) == IF a > b THEN a ELSE b

RECURSIVE SumSeq(_)
SumSeq(s) == IF Len(s) = 0 THEN 0 ELSE Head(s) + SumSeq(Tail(s))

SetMax(S) == CHOOSE x \in S : \A y \in S : y <= x
SetMin(S) == CHOOSE x \in S : \A y \in S : x <= y

\* uint32_t subtraction a - b wraps modulo 2^32 = 4 * TwoPow30.  TLC's
\* integers are 32 bits wide, so the wrapped difference is kept as its
\* remainder modulo 4 and its quotient by 4 (b - a is at most HEADER_BYTES).
U32SubMod4(a, b) ==
  IF a >= b THEN (a - b) % 4 ELSE (4 - ((b - a) % 4)) % 4
U32SubDiv4(a, b) ==
  IF a >= b THEN (a - b) \div 4 ELSE TwoPow30 - ((b - a + 3) \div 4)

Chans(c) == 0 .. (c.n_channels - 1)

\* ------------------------------------------------------------ float values
\* The floats of the waveform analysis are modelled as exact rationals
\* [n, d] with d > 0 in lowest terms (rounding is not modelled).
RECURSIVE Gcd(_, _)
Gcd(a, b) == IF b = 0 THEN a ELSE Gcd(b, a % b)

Abs(x) == IF x < 0 THEN 0 - x ELSE x

R(n, d) ==
  LET sn == IF d < 0 THEN 0 - n ELSE n
      sd == Abs(d)
      g  == Gcd(Abs(sn), sd)
  IN  [n |-> sn \div g, d |-> sd \div g]

RInt(k) == [n |-> k, d |-> 1]
RAdd(a, b) == R(a.n * b.d + b.n * a.d, a.d * b.d)
RSub(a, b) == R(a.n * b.d - b.n * a.d, a.d * b.d)
RMul(a, b) == R(a.n * b.n, a.d * b.d)
RDiv(a, b) == R(a.n * b.d, a.d * b.n)
RLt(a, b) == a.n * b.d < b.n * a.d
RLe(a, b) == a.n * b.d <= b.n * a.d
RAbs(a) == [n |-> Abs(a.n), d |-> a.d]
RMin(a, b) == IF RLt(b, a) THEN b ELSE a
RMax(a, b) == IF RLt(a, b) THEN b ELSE a

RECURSIVE RSum(_)
RSum(s) == IF s = <<>> THEN RInt(0) ELSE RAdd(Head(s), RSum(Tail(s)))

\* ---------------------------------------------------------- waveform_math
\* Vectors are sequences; the code's 0-based index i is element i + 1.
At(v, i) == v[i + 1]

\* the interpolation measured back from x2
InterpolateReversed(x1, y1, x2, y2, yTarget) ==
  IF y2 = y1 THEN x1
  ELSE RSub(x2, RMul(RDiv(RSub(x2, x1), RSub(y2, y1)), RSub(yTarget, y1)))

\* Interpolate.  The guard |y2 - y1| < 1e-9 is y2 = y1 on the model's values,
\* whose differences are never that small without being 0.
Interpolate(x1, y1, x2, y2, yTarget) ==
  IF y2 = y1 THEN x1
  ELSE RAdd(x1, RMul(RDiv(RSub(x2, x1), RSub(y2, y1)), RSub(yTarget, y1)))

\* FindTimeIndex: the first index whose time is >= threshold, else the last
FindTimeIndex(time, threshold) ==
  LET hits == {i \in 0 .. (Len(time) - 1) : RLe(threshold, At(time, i))}
  IN  IF hits = {} THEN Len(time) - 1 ELSE SetMin(hits)

WindowIndices(start, end) == [start |-> start, end |-> end]

BuildWindowIndices(time, region_min, region_max, analysis_start, analysis_end) ==
  IF time = <<>> THEN WindowIndices(0, 0)
  ELSE LET start_idx == FindTimeIndex(time, region_min)
           end_idx   == FindTimeIndex(time, region_max)
           nSamples  == Len(time)
           start == MaxInt(0, MinInt(MaxInt(start_idx, analysis_start), nSamples - 1))
           end   == MaxInt(start, MinInt(MinInt(end_idx, analysis_end), nSamples - 1))
       IN  WindowIndices(start, end)

\* AnalyzeWaveform: the outer analysis window
AnalysisWindow(time, analysisMin, analysisMax) ==
  LET nSamples == Len(time)
      ge == {i \in 0 .. (nSamples - 1) : RLe(analysisMin, At(time, i))}
      le == {i \in 0 .. (nSamples - 1) : RLe(At(time, i), analysisMax)}
  IN  WindowIndices(IF ge = {} THEN 0 ELSE SetMin(ge),
                    IF le = {} THEN nSamples - 1 ELSE SetMax(le))

\* the elements start .. end (0-based, inclusive) of a vector
Slice(v, start, end) == [k \in 1 .. (end - start + 1) |-> At(v, start + k - 1)]

RECURSIVE RMinOf(_, _)
RMinOf(s, acc) == IF s = <<>> THEN acc ELSE RMinOf(Tail(s), RMin(acc, Head(s)))
RECURSIVE RMaxOf(_, _)
RMaxOf(s, acc) == IF s = <<>> THEN acc ELSE RMaxOf(Tail(s), RMax(acc, Head(s)))

\* ComputeBaselineAndNoise.  rms_noise is a square root: the model keeps its
\* square, rms2.
ComputeBaselineAndNoise(amp, w) ==
  LET nSamples == Len(amp)
      start == MaxInt(0, w.start)
      end   == MinInt(w.end, nSamples - 1)
      vals  == Slice(amp, start, end)
      np    == Len(vals)
      base  == IF np > 0 THEN RDiv(RSum(vals), RInt(np)) ELSE RInt(0)
      near(i) == (IF i > 0 THEN <<At(amp, i - 1)>> ELSE <<>>)
                 \o <<At(amp, i)>>
                 \o (IF i + 1 < nSamples THEN <<At(amp, i + 1)>> ELSE <<>>)
      sq    == [k \in 1 .. np |-> RMul(RSub(vals[k], base), RSub(vals[k], base))]
      n1    == [k \in 1 .. np |->
                  RSub(RDiv(RSum(near(start + k - 1)),
                            RInt(Len(near(start + k - 1)))), base)]
  IN  IF nSamples = 0
      THEN [baseline |-> RInt(0), rms2 |-> RInt(0), noise1_point |-> RInt(0),
            amp_min |-> RInt(100000), amp_max |-> RInt(0 - 100000)]
      ELSE [baseline |-> base,
            rms2 |-> IF np > 0 THEN RDiv(RSum(sq), RInt(np)) ELSE RInt(0),
            noise1_point |-> IF np > 0 THEN RDiv(RSum(n1), RInt(np)) ELSE RInt(0),
            amp_min |-> RMinOf(vals, RInt(100000)),
            amp_max |-> RMaxOf(vals, RInt(0 - 100000))]

ApplyBaselineAndPolarity(amp, baseline, polarity) ==
  [k \in 1 .. Len(amp) |-> RMul(RSub(amp[k], baseline), RInt(polarity))]

\* FindPeakInWindow: the loop from index i on
RECURSIVE PeakFrom(_, _, _, _)
PeakFrom(amp_corr, i, end, peak) ==
  IF i > end THEN peak
  ELSE PeakFrom(amp_corr, i + 1, end,
         IF RLt(peak.amplitude, At(amp_corr, i))
         THEN [amplitude |-> At(amp_corr, i), index |-> i]
         ELSE peak)

FindPeakInWindow(amp_corr, time, w) ==
  IF amp_corr = <<>> \/ Len(time) # Len(amp_corr)
  THEN [amplitude |-> RInt(0), index |-> 0, time |-> RInt(0)]
  ELSE LET start == MaxInt(0, w.start)
           end   == MinInt(w.end, Len(amp_corr) - 1)
           peak  == PeakFrom(amp_corr, start, end,
                             [amplitude |-> RInt(0), index |-> start])
       IN  [amplitude |-> peak.amplitude, index |-> peak.index,
            time |-> At(time, peak.index)]

\* amp_corr[i] * dt / impedance
ChargeOf(v, dt, impedance) == RDiv(RMul(v, dt), impedance)

\* IntegrateChargeWindow: the samples start .. end - 1
IntegrateChargeWindow(amp_corr, w, dt, impedance) ==
  IF amp_corr = <<>> THEN RInt(0)
  ELSE LET start == MaxInt(0, w.start)
           end   == MinInt(w.end, Len(amp_corr) - 1)
           vals  == Slice(amp_corr, start, end - 1)
       IN  RSum([k \in 1 .. Len(vals) |-> ChargeOf(vals[k], dt, impedance)])

\* A jitter or a signal-to-noise ratio is a quotient by (or of) rms_noise, a
\* square root: it is kept as its sign and its square.
Root(neg, sq) == [neg |-> neg, sq |-> sq]

\* the values the timing outputs are initialised with: 10.0, 0.0, 0.0, 20.0,
\* -5.0, -5.0
Sentinels ==
  [timeCharge |-> RInt(10),
   timeCFD |-> RInt(0), jitterCFD |-> Root(FALSE, RInt(0)),
   timeLE |-> RInt(20), jitterLE |-> Root(TRUE, RInt(25)), totLE |-> RInt(0 - 5)]

\* ComputeChargeFractionTimes: the loop from sample i on.
\* p = [amp_corr, time, end, dt, impedance, thresholds, charge_min, charge_max]
RECURSIVE ChargeTimesFrom(_, _, _, _, _)
ChargeTimesFrom(p, i, chargetemp, chth, time_charge) ==
  IF ~(i < p.end /\ i < Len(p.amp_corr)) THEN time_charge
  ELSE
    LET q  == ChargeOf(At(p.amp_corr, i), p.dt, p.impedance)
        ct == RAdd(chargetemp, q)
        nChTh == Len(p.thresholds)
    IN  IF chth < nChTh /\ RLt(At(p.thresholds, chth), ct)
        THEN LET t == Interpolate(At(p.time, i - 1), RSub(ct, q),
                                  At(p.time, i), ct, At(p.thresholds, chth))
                 tc == IF i > 0 /\ RLe(p.charge_min, t) /\ RLe(t, p.charge_max)
                       THEN [time_charge EXCEPT ![chth + 1] = t]
                       ELSE time_charge
             IN  IF chth + 1 = nChTh THEN tc
                 ELSE ChargeTimesFrom(p, i + 1, ct, chth + 1, tc)
        ELSE ChargeTimesFrom(p, i + 1, ct, chth, time_charge)

ComputeChargeFractionTimes(amp_corr, time, w, dt, impedance, total_charge, thresholds_percent, charge_min, charge_max) ==
  LET nChTh == Len(thresholds_percent)
      time_charge == [k \in 1 .. nChTh |-> Sentinels.timeCharge]
  IN  IF amp_corr = <<>> \/ Len(time) # Len(amp_corr) THEN time_charge
      ELSE ChargeTimesFrom(
             [amp_corr |-> amp_corr, time |-> time,
              end |-> MinInt(w.end, Len(amp_corr) - 1),
              dt |-> dt, impedance |-> impedance,
              thresholds |-> [k \in 1 .. nChTh |->
                                RDiv(RMul(total_charge, RInt(thresholds_percent[k])),
                                     RInt(100))],
              charge_min |-> charge_min, charge_max |-> charge_max],
             MaxInt(0, w.start), RInt(0), 0, time_charge)

NoCrossing == [time |-> RInt(0), jitter |-> Root(FALSE, RInt(0)), found |-> FALSE]

\* FindThresholdCrossingBackward: from from_idx down to stop_idx + 1, the first
\* sample below the threshold
FindThresholdCrossingBackward(amp_corr, time, from_idx, stop_idx, threshold, rms2) ==
  IF amp_corr = <<>> \/ Len(time) # Len(amp_corr) THEN NoCrossing
  ELSE
    LET nSamples == Len(amp_corr)
        start == MinInt(from_idx, nSamples - 1)
        stop  == MaxInt(0, stop_idx)
        below == {i \in (stop + 1) .. start : RLt(At(amp_corr, i), threshold)}
    IN  IF below = {} THEN NoCrossing
        ELSE LET i == SetMax(below)
             IN  IF i + 1 < nSamples
                 THEN LET slew == RDiv(RSub(At(amp_corr, i + 1), At(amp_corr, i)),
                                       RSub(At(time, i + 1), At(time, i)))
                      IN  [time |-> Interpolate(At(time, i), At(amp_corr, i),
                                                At(time, i + 1), At(amp_corr, i + 1),
                                                threshold),
                           jitter |-> IF slew # RInt(0)
                                      THEN Root(FALSE, RDiv(rms2, RMul(slew, slew)))
                                      ELSE Root(FALSE, RInt(0)),
                           found |-> TRUE]
                 ELSE NoCrossing

\* FindTrailingEdgeForward: from max(1, from_idx) up to stop_idx - 1, the first
\* sample below the threshold
FindTrailingEdgeForward(amp_corr, time, from_idx, stop_idx, threshold) ==
  IF amp_corr = <<>> \/ Len(time) # Len(amp_corr) THEN NoCrossing
  ELSE
    LET start == MaxInt(1, from_idx)
        stop  == MinInt(stop_idx, Len(amp_corr) - 1)
        below == {i \in start .. (stop - 1) : RLt(At(amp_corr, i), threshold)}
    IN  IF below = {} THEN NoCrossing
        ELSE LET i == SetMin(below)
             IN  [time |-> Interpolate(At(time, i - 1), At(amp_corr, i - 1),
                                       At(time, i), At(amp_corr, i), threshold),
                  jitter |-> Root(FALSE, RInt(0)),
                  found |-> TRUE]

\* One pass of the CFD loop of AnalyzeWaveform for a threshold in percent.
\* w = [amp_corr, time, posampmax, signal_start, charge_end, ampMax, rms2]
CFDTiming(w, percent) ==
  LET threshold == RDiv(RMul(w.ampMax, RInt(percent)), RInt(100))
      crossing  == FindThresholdCrossingBackward(w.amp_corr, w.time, w.posampmax,
                                                 w.signal_start, threshold, w.rms2)
  IN  IF crossing.found
      THEN [timeCFD |-> crossing.time, jitterCFD |-> crossing.jitter]
      ELSE [timeCFD |-> Sentinels.timeCFD, jitterCFD |-> Sentinels.jitterCFD]

LEDefaults == [timeLE |-> Sentinels.timeLE, jitterLE |-> Sentinels.jitterLE,
               totLE |-> Sentinels.totLE]

\* the leading-edge pass with the sentinels overwritten whether or not the
\* leading edge was found
LETimingFoundIgnored(w, millivolt) ==
  LET threshold == RDiv(millivolt, RInt(1000))
      leading   == FindThresholdCrossingBackward(w.amp_corr, w.time, w.posampmax,
                                                 w.signal_start, threshold, w.rms2)
      trailing  == FindTrailingEdgeForward(w.amp_corr, w.time, w.posampmax,
                                           w.charge_end, threshold)
  IN  [timeLE |-> leading.time, jitterLE |-> leading.jitter,
       totLE |-> RSub(trailing.time, leading.time)]

\* the leading-edge pass after its "ampMax <= threshold" guard
LETimingUnguarded(w, millivolt) ==
  LET threshold == RDiv(millivolt, RInt(1000))
      leading   == FindThresholdCrossingBackward(w.amp_corr, w.time, w.posampmax,
                                                 w.signal_start, threshold, w.rms2)
      trailing  == FindTrailingEdgeForward(w.amp_corr, w.time, w.posampmax,
                                           w.charge_end, threshold)
  IN  IF leading.found
      THEN [timeLE |-> leading.time, jitterLE |-> leading.jitter,
            totLE |-> IF trailing.found THEN RSub(trailing.time, leading.time)
                      ELSE Sentinels.totLE]
      ELSE LEDefaults

\* One pass of the leading-edge loop of AnalyzeWaveform for a threshold in mV
LETiming(w, millivolt) ==
  IF RLe(w.ampMax, RDiv(millivolt, RInt(1000))) THEN LEDefaults
  ELSE LETimingUnguarded(w, millivolt)

\* WaveformFeatures with hasSignal initialised to true
DefaultFeaturesWithSignal ==
  [baseline |-> RInt(0), rms2 |-> RInt(0), noise1Point |-> RInt(0),
   ampMinBefore |-> RInt(0), ampMaxBefore |-> RInt(0),
   hasSignal |-> TRUE, ampMax |-> RInt(0), charge |-> RInt(0),
   signalOverNoise |-> Root(FALSE, RInt(0)), peakTime |-> RInt(0),
   riseTime |-> RInt(0), slewRate |-> RInt(0),
   timeCFD |-> <<>>, jitterCFD |-> <<>>, timeLE |-> <<>>, jitterLE |-> <<>>,
   totLE |-> <<>>, timeCharge |-> <<>>,
   posampmax |-> 0,
   baseline_window |-> WindowIndices(0, 0), signal_window |-> WindowIndices(0, 0),
   charge_window |-> WindowIndices(0, 0)]

\* WaveformFeatures as default-constructed
DefaultFeatures ==
  [baseline |-> RInt(0), rms2 |-> RInt(0), noise1Point |-> RInt(0),
   ampMinBefore |-> RInt(0), ampMaxBefore |-> RInt(0),
   hasSignal |-> FALSE, ampMax |-> RInt(0), charge |-> RInt(0),
   signalOverNoise |-> Root(FALSE, RInt(0)), peakTime |-> RInt(0),
   riseTime |-> RInt(0), slewRate |-> RInt(0),
   timeCFD |-> <<>>, jitterCFD |-> <<>>, timeLE |-> <<>>, jitterLE |-> <<>>,
   totLE |-> <<>>, timeCharge |-> <<>>,
   posampmax |-> 0,
   baseline_window |-> WindowIndices(0, 0), signal_window |-> WindowIndices(0, 0),
   charge_window |-> WindowIndices(0, 0)]

\* AnalyzeWaveform.  The result also carries the function's locals posampmax
\* and the three windows, which no branch of the output stores.
AnalyzeWaveform(amp, time, cfg, channel) ==
  IF Len(amp) = 0 \/ Len(time) # Len(amp) THEN DefaultFeatures
  ELSE
    LET nSamples == Len(amp)
        dT == IF nSamples > 1 THEN RSub(At(time, 1), At(time, 0)) ELSE R(1, 5)
        analysis_window == AnalysisWindow(time, At(cfg.analysis_region_min, channel),
                                          At(cfg.analysis_region_max, channel))
        baseline_window == BuildWindowIndices(time,
                             At(cfg.baseline_region_min, channel),
                             At(cfg.baseline_region_max, channel),
                             analysis_window.start, analysis_window.end)
        m == ComputeBaselineAndNoise(amp, baseline_window)
        ampCorr == ApplyBaselineAndPolarity(amp, m.baseline,
                                            At(cfg.signal_polarity, channel))
        signal_window == BuildWindowIndices(time,
                           At(cfg.signal_region_min, channel),
                           At(cfg.signal_region_max, channel),
                           analysis_window.start, analysis_window.end)
        peak == FindPeakInWindow(ampCorr, time, signal_window)
        snr2 == RDiv(RMul(peak.amplitude, peak.amplitude), m.rms2)
        charge_window == BuildWindowIndices(time,
                           At(cfg.charge_region_min, channel),
                           At(cfg.charge_region_max, channel),
                           analysis_window.start, analysis_window.end)
        charge == IntegrateChargeWindow(ampCorr, charge_window, dT, cfg.impedance)
        w == [amp_corr |-> ampCorr, time |-> time, posampmax |-> peak.index,
              signal_start |-> signal_window.start,
              charge_end |-> charge_window.end,
              ampMax |-> peak.amplitude, rms2 |-> m.rms2]
        nCFD == Len(cfg.cfd_thresholds)
        nLE  == Len(cfg.le_thresholds)
        amp90 == RMul(peak.amplitude, cfg.rise_time_high)
        amp10 == RMul(peak.amplitude, cfg.rise_time_low)
        crossing90 == FindThresholdCrossingBackward(ampCorr, time, peak.index,
                                                    signal_window.start, amp90, m.rms2)
        crossing10 == FindThresholdCrossingBackward(ampCorr, time, peak.index,
                                                    signal_window.start, amp10, m.rms2)
        riseTime == RSub(IF crossing90.found THEN crossing90.time ELSE RInt(0),
                         IF crossing10.found THEN crossing10.time ELSE RInt(0))
    IN  [baseline |-> m.baseline, rms2 |-> m.rms2, noise1Point |-> m.noise1_point,
         ampMinBefore |-> m.amp_min, ampMaxBefore |-> m.amp_max,
         hasSignal |-> /\ RLt(RInt(0), m.rms2)
                       /\ RLe(RMul(cfg.snr_threshold, cfg.snr_threshold), snr2)
                       /\ RLe(At(cfg.cut_amp_max, channel), peak.amplitude),
         ampMax |-> peak.amplitude,
         charge |-> charge,
         signalOverNoise |-> IF RLt(RInt(0), m.rms2) THEN Root(FALSE, snr2)
                             ELSE Root(FALSE, RInt(0)),
         peakTime |-> peak.time,
         riseTime |-> riseTime,
         slewRate |-> IF RLt(RInt(0), riseTime)
                      THEN RDiv(RSub(amp90, amp10), riseTime) ELSE RInt(0),
         timeCFD   |-> [b \in 1 .. nCFD |-> CFDTiming(w, cfg.cfd_thresholds[b]).timeCFD],
         jitterCFD |-> [b \in 1 .. nCFD |-> CFDTiming(w, cfg.cfd_thresholds[b]).jitterCFD],
         timeLE   |-> [b \in 1 .. nLE |-> LETiming(w, cfg.le_thresholds[b]).timeLE],
         jitterLE |-> [b \in 1 .. nLE |-> LETiming(w, cfg.le_thresholds[b]).jitterLE],
         totLE    |-> [b \in 1 .. nLE |-> LETiming(w, cfg.le_thresholds[b]).totLE],
         timeCharge |-> ComputeChargeFractionTimes(ampCorr, time, charge_window, dT,
                          cfg.impedance, charge, cfg.charge_thresholds,
                          At(cfg.charge_region_min, channel),
                          At(cfg.charge_region_max, channel)),
         posampmax |-> peak.index,
         baseline_window |-> baseline_window, signal_window |-> signal_window,
         charge_window |-> charge_window]

\* ----------------------------------------------- the array indices read
\* The indices of amp that ComputeBaselineAndNoise reads: amp[i] in both
\* loops, amp[i-1] and amp[i+1] under their guards in the second.
BaselineReadsUnguarded(amp, w) ==
  LET nSamples == Len(amp)
      start == MaxInt(0, w.start)
      end   == MinInt(w.end, nSamples - 1)
  IN  IF nSamples = 0 THEN {}
      ELSE UNION {{i - 1, i} \cup (IF i + 1 < nSamples THEN {i + 1} ELSE {}) :
                    i \in start .. end}

BaselineReads(amp, w) ==
  LET nSamples == Len(amp)
      start == MaxInt(0, w.start)
      end   == MinInt(w.end, nSamples - 1)
  IN  IF nSamples = 0 THEN {}
      ELSE UNION {{i} \cup (IF i > 0 THEN {i - 1} ELSE {})
                      \cup (IF i + 1 < nSamples THEN {i + 1} ELSE {}) :
                    i \in start .. end}

\* The indices of amp_corr and time that the loop of
\* ComputeChargeFractionTimes reads from sample i on; p as in ChargeTimesFrom.
RECURSIVE ChargeReadsFrom(_, _, _, _)
ChargeReadsFrom(p, i, chargetemp, chth) ==
  IF ~(i < p.end /\ i < Len(p.amp_corr)) THEN {}
  ELSE
    LET ct == RAdd(chargetemp, ChargeOf(At(p.amp_corr, i), p.dt, p.impedance))
        nChTh == Len(p.thresholds)
    IN  IF chth < nChTh /\ RLt(At(p.thresholds, chth), ct)
        THEN {i} \cup (IF i > 0 THEN {i - 1} ELSE {})
                 \cup (IF chth + 1 = nChTh THEN {}
                       ELSE ChargeReadsFrom(p, i + 1, ct, chth + 1))
        ELSE {i} \cup ChargeReadsFrom(p, i + 1, ct, chth)

\* The indices FindThresholdCrossingBackward reads: amp_corr[i] from start
\* down to the first sample below the threshold, then i + 1 under its guard.
BackwardReads(amp_corr, time, from_idx, stop_idx, threshold) ==
  IF amp_corr = <<>> \/ Len(time) # Len(amp_corr) THEN {}
  ELSE
    LET nSamples == Len(amp_corr)
        start == MinInt(from_idx, nSamples - 1)
        stop  == MaxInt(0, stop_idx)
        below == {i \in (stop + 1) .. start : RLt(At(amp_corr, i), threshold)}
    IN  IF below = {} THEN (stop + 1) .. start
        ELSE (SetMax(below) .. start)
               \cup (IF SetMax(below) + 1 < nSamples THEN {SetMax(below) + 1} ELSE {})

\* The indices FindTrailingEdgeForward reads: amp_corr[i] from start up to the
\* first sample below the threshold, then i - 1.
ForwardReads(amp_corr, time, from_idx, stop_idx, threshold) ==
  IF amp_corr = <<>> \/ Len(time) # Len(amp_corr) THEN {}
  ELSE
    LET start == MaxInt(1, from_idx)
        stop  == MinInt(stop_idx, Len(amp_corr) - 1)
        below == {i \in start .. (stop - 1) : RLt(At(amp_corr, i), threshold)}
    IN  IF below = {} THEN start .. (stop - 1)
        ELSE (start .. SetMin(below)) \cup {SetMin(below) - 1}

\* Every index of amp, ampCorr and time that AnalyzeWaveform reads on the way
\* to the features f: none before the early return; after it time[0], time[1]
\* for dT, the scans for the windows, the baseline, the peak search and
\* time[peak.index], the charge integral, the charge fractions, and the
\* backward and forward searches of the CFD, leading-edge and rise-time passes.
IndicesRead(amp, time, cfg, channel, f) ==
  IF Len(amp) = 0 \/ Len(time) # Len(amp) THEN {}
  ELSE
    LET nSamples == Len(amp)
        dT == IF nSamples > 1 THEN RSub(At(time, 1), At(time, 0)) ELSE R(1, 5)
        ampCorr == ApplyBaselineAndPolarity(amp, f.baseline,
                                            At(cfg.signal_polarity, channel))
        back(threshold) == BackwardReads(ampCorr, time, f.posampmax,
                                         f.signal_window.start, threshold)
        leThreshold(b) == RDiv(cfg.le_thresholds[b], RInt(1000))
        leading(b) == FindThresholdCrossingBackward(ampCorr, time, f.posampmax,
                        f.signal_window.start, leThreshold(b), f.rms2)
    IN  (IF nSamples > 1 THEN {0, 1} ELSE {})
        \cup (0 .. (nSamples - 1))
        \cup BaselineReads(amp, f.baseline_window)
        \cup (MaxInt(0, f.signal_window.start)
                .. MinInt(f.signal_window.end, nSamples - 1))
        \cup {f.posampmax}
        \cup (MaxInt(0, f.charge_window.start)
                .. (MinInt(MinInt(f.charge_window.end, nSamples - 1), nSamples) - 1))
        \cup ChargeReadsFrom(
               [amp_corr |-> ampCorr, time |-> time,
                end |-> MinInt(f.charge_window.end, nSamples - 1),
                dt |-> dT, impedance |-> cfg.impedance,
                thresholds |-> [k \in 1 .. Len(cfg.charge_thresholds) |->
                                  RDiv(RMul(f.charge, RInt(cfg.charge_thresholds[k])),
                                       RInt(100))]],
               MaxInt(0, f.charge_window.start), RInt(0), 0)
        \cup UNION {back(RDiv(RMul(f.ampMax, RInt(cfg.cfd_thresholds[b])), RInt(100))) :
                      b \in 1 .. Len(cfg.cfd_thresholds)}
        \cup UNION {IF RLe(f.ampMax, leThreshold(b)) THEN {}
                    ELSE back(leThreshold(b))
                           \cup (IF leading(b).found
                                 THEN ForwardReads(ampCorr, time, f.posampmax,
                                                   f.charge_window.end, leThreshold(b))
                                 ELSE {}) :
                      b \in 1 .. Len(cfg.le_thresholds)}
        \cup back(RMul(f.ampMax, cfg.rise_time_high))
        \cup back(RMul(f.ampMax, cfg.rise_time_low))

\* ------------------------------------------------------------- input files
\* The record the digitizer writes for trigger k on channel ch.
GoodRec(ch, k) ==
  [eventSize    |-> HEADER_BYTES + SizeofFloat * MaxSamples,
   boardId      |-> 1,
   channelId    |-> ch,
   eventCounter |-> k,
   samples      |-> [i \in 1 .. MaxSamples |-> Scale * (1 + ((ch + k + i) % 3))],
   avail        |-> MaxSamples]

\* One way a record of a file can differ from GoodRec.
Deviate(r, kind) ==
  CASE kind = "ctr"     -> [r EXCEPT !.eventCounter = r.eventCounter + 1]
    [] kind = "board"   -> [r EXCEPT !.boardId = r.boardId + 1]
    [] kind = "chan"    -> [r EXCEPT !.channelId = r.channelId + 2]
    [] kind = "short"   -> [r EXCEPT !.eventSize = r.eventSize - SizeofFloat,
                                     !.samples = SubSeq(r.samples, 1, Len(r.samples) - 1),
                                     !.avail = r.avail - 1]
    [] kind = "badsize" -> [r EXCEPT !.eventSize = r.eventSize + 2,
                                     !.samples = <<>>, !.avail = 0]
    [] kind = "tiny"    -> [r EXCEPT !.eventSize = HEADER_BYTES,
                                     !.samples = <<>>, !.avail = 0]
    [] kind = "wrap"    -> [r EXCEPT !.eventSize = 0,
                                     !.samples = <<>>, !.avail = 0]
    [] kind = "trunc"   -> [r EXCEPT !.avail = r.avail - 1]
    [] OTHER            -> r

AllKinds == {"ctr", "board", "chan", "short", "badsize", "tiny", "wrap", "trunc"}

\* The deviations a set of files of the given lengths can carry: a payload can
\* only be cut short in the last record of a file.
Deviations(n, lens, kinds) ==
  {d \in [ch : 0 .. (n - 1), k : 0 .. (MaxRecords - 1), kind : kinds] :
     /\ d.k < lens[d.ch]
     /\ (d.kind = "trunc" => d.k = lens[d.ch] - 1)}

\* the sets of at most m deviations, no two on the same record
RECURSIVE DevSetsUpTo(_, _)
DevSetsUpTo(Devs, m) ==
  IF m = 0 THEN {{}}
  ELSE LET smaller == DevSetsUpTo(Devs, m - 1)
       IN smaller \cup
          {D \cup {d} : <<D, d>> \in
             {p \in smaller \X Devs :
                \A e \in p[1] : ~(e.ch = p[2].ch /\ e.k = p[2].k)}}

DevSets(n, lens, kinds) == DevSetsUpTo(Deviations(n, lens, kinds), MaxDevs)

MkFiles(n, lens, D) ==
  [ch \in 0 .. (n - 1) |->
     [j \in 1 .. lens[ch] |->
        IF \E d \in D : d.ch = ch /\ d.k = j - 1
        THEN Deviate(GoodRec(ch, j - 1),
                     (CHOOSE d \in D : d.ch = ch /\ d.k = j - 1).kind)
        ELSE GoodRec(ch, j - 1)]]

\* Files in which every record of the channels above 0 differs from channel
\* 0's in eventCounter and in boardId: two consistency issues per channel
\* above 0 in every aligned event.
NoisyFiles(n, len) ==
  [ch \in 0 .. (n - 1) |->
     [j \in 1 .. len |->
        IF ch >= 1
        THEN Deviate(Deviate(GoodRec(ch, j - 1), "ctr"), "board")
        ELSE GoodRec(ch, j - 1)]]

\* ----------------------------------------------------------- configuration
\* S gives, per configuration field, the values to draw from.  alloc_throws is
\* the environment, not a setting: whether a multi-gigabyte vector resize throws.
Mode(c) ==
  IF c.input_is_ascii THEN "ascii" ELSE IF c.max_cores > 1 THEN "par" ELSE "seq"

Configs(S) ==
  {c \in [n_channels : S.n_channels, input_is_ascii : BOOLEAN,
          max_cores : S.max_cores, event_policy : S.event_policy,
          nsamples_policy : S.nsamples_policy, chunk_size : S.chunk_size,
          max_events : S.max_events,
          enable_special_override : S.enable_special_override,
          special_channel_index : {1}, pedestal_window : S.pedestal_window,
          ped_target : {10 * Scale}, alloc_throws : S.alloc_throws] :
     /\ (c.input_is_ascii => c.max_cores = 1)
     /\ Mode(c) \in S.modes}

IsSpecialOverrideChannel(c, ch) ==
  /\ c.enable_special_override
  /\ c.special_channel_index = ch
  /\ c.special_channel_index >= 0
  /\ c.special_channel_index < c.n_channels

\* ------------------------------------------------------ per-event helpers
\* The consistency checks of one aligned event: channel ch >= 1 against
\* channel 0 (eventCounter, boardId) and against its own index (channelId).
IssuesOfChannel(c, hdrs, ch) ==
  (IF hdrs[ch].eventCounter # hdrs[0].eventCounter
   THEN <<[kind |-> "eventCounter", ch |-> ch]>> ELSE <<>>)
  \o (IF hdrs[ch].boardId # hdrs[0].boardId
      THEN <<[kind |-> "boardId", ch |-> ch]>> ELSE <<>>)
  \o (IF hdrs[ch].channelId # ch /\ ~IsSpecialOverrideChannel(c, ch)
      THEN <<[kind |-> "channelId", ch |-> ch]>> ELSE <<>>)

RECURSIVE IssuesFrom(_, _, _)
IssuesFrom(c, hdrs, ch) ==
  IF ch >= c.n_channels THEN <<>>
  ELSE IssuesOfChannel(c, hdrs, ch) \o IssuesFrom(c, hdrs, ch + 1)

ConsistencyIssues(c, hdrs) == IssuesFrom(c, hdrs, 1)

\* The message loop of the binary paths: under warn at most
\* kConsistencyWarnLimit warnings are printed, then one notice.
\* st = [count, warn, err, suppressed].
RECURSIVE PrintIssues(_, _, _)
PrintIssues(policy, issues, st) ==
  IF Len(issues) = 0 THEN st
  ELSE IF policy = "warn" /\ st.count >= kConsistencyWarnLimit
       THEN PrintIssues(policy, Tail(issues), st)
  ELSE IF policy = "warn"
       THEN PrintIssues(policy, Tail(issues),
              [st EXCEPT !.count = st.count + 1, !.warn = st.warn + 1,
                         !.suppressed = IF st.count + 1 = kConsistencyWarnLimit
                                        THEN st.suppressed + 1 ELSE st.suppressed])
  ELSE PrintIssues(policy, Tail(issues), [st EXCEPT !.err = st.err + 1])

\* The message loop of the ASCII path: every message is printed.
PrintIssuesAscii(policy, issues, st) ==
  IF policy = "warn" THEN [st EXCEPT !.warn = st.warn + Len(issues)]
  ELSE [st EXCEPT !.err = st.err + Len(issues)]

SeqMaxOf(f, D) == SetMax({f[ch] : ch \in D})

\* a comparison that looks at channel 0 alone
HasMismatchFirstOnly(nsamp, D) == nsamp[0] # SeqMaxOf(nsamp, D)

\* std::any_of(samplesThisEvent, v != maxSamples)
HasMismatch(nsamp, D) == \E ch \in D : nsamp[ch] # SeqMaxOf(nsamp, D)

\* float arithmetic on exact values; NaN (0.0 / 0) is absorbing.  It is encoded
\* as a number no sample arithmetic of the model produces.
NaN == 0 - TwoPow30
FSub(a, b) == IF a = NaN \/ b = NaN THEN NaN ELSE a - b
FAdd(a, b) == IF a = NaN \/ b = NaN THEN NaN ELSE a + b

\* pedVal = sum of the first nPed samples / denom
PedestalOf(rawS, nPed, denom) ==
  IF denom = 0 THEN NaN ELSE SumSeq(SubSeq(rawS, 1, nPed)) \div denom

\* raw[ch].resize(maxSamples, pedestal)
PadRaw(rawS, maxSamples, pedestal) ==
  [i \in 1 .. maxSamples |-> IF i <= Len(rawS) THEN rawS[i] ELSE pedestal]

\* the correction without the second loop: the resized tail stays 0
CorrectedTailZero(rawS, nsampCh, maxSamples, pedestal, target) ==
  [i \in 1 .. maxSamples |->
     IF i <= nsampCh THEN FAdd(FSub(rawS[i], pedestal), target) ELSE 0]

\* ped[ch][i] = raw[ch][i] - pedestal + pedTarget below nsampCh, pedTarget above
Corrected(rawS, nsampCh, maxSamples, pedestal, target) ==
  [i \in 1 .. maxSamples |->
     IF i <= nsampCh THEN FAdd(FSub(rawS[i], pedestal), target) ELSE target]

\* ------------------------------------------------------------------- state
VARIABLES
  cfg,                     \* WaveConverterConfig
  files,                   \* the channel files: files[ch] is a sequence of frames
  pc,                      \* where the converter is
  fpos,                    \* fins[ch]: number of frames consumed
  channelEof,              \* channelEof[ch]
  tree,                    \* entries filled into the TTree so far
  eventCount,              \* ConvertBinaryToRoot: eventCount
  encounteredError,        \* ConvertBinaryToRoot: encounteredError
  consistencyWarningCount, \* consistencyWarningCount of the binary paths
  log,                     \* what was printed
  result,                  \* "running", or main's exit: "ok" (0) / "fail" (2, 3)
  committed,               \* the entries tree->Write() put in the output file
  chunkData,               \* parallel: chunkData[ch]
  thr,                     \* parallel: threads[t], with the chIdx it captured
  readCount,               \* parallel: reader-thread bodies run on channel ch
                           \* in the current round
  batch,                   \* parallel: first channel of the thread batch
  totalEventsProcessed,    \* parallel: totalEventsProcessed
  chunkNumber,             \* parallel: chunkNumber
  channelEvents,           \* ASCII: channelEvents[ch]
  evt,                     \* ASCII: loop index evt
  prevRun,                 \* outcome of an earlier run on the same files, or <<>>
  opts,                    \* parallel_analyze.sh: NUM_EVENTS, CHUNK_SIZE, MAX_CORES
  dpc,                     \* where the extraction driver is
  START,                   \* driver: START of the dispatch loop
  CHUNK_ID,                \* driver: CHUNK_ID
  PIDS,                    \* driver: PIDS (a worker's pid is its chunk id)
  worker,                  \* worker[c]: the background process_chunk c; rc is
                           \* the analyzer's exit status, status the worker's
  outRoot,                 \* $OUTPUT_DIR/output/root/chunk_<c>.root
  tempDir,                 \* $TEMP_DIR/chunk_<c>.root
  exitStatus,              \* the driver's exit status, -1 while it runs
  merged,                  \* $OUTPUT_PATH as written by hadd
  waveform,                \* AnalyzeWaveform's arguments: amp, time, cfg
  features,                \* the WaveformFeatures it returned
  analysed,                \* whether AnalyzeWaveform has returned
  inputTree,               \* RunAnalysis: the entries of the input tree
  runOpts,                 \* RunAnalysis: cfg, nsamples policy, startEntry, endEntry
  runPc,                   \* RunAnalysis: "off", "loop", "ok" (true) or "fail" (false)
  iEntry,                  \* RunAnalysis: loop index i
  event,                   \* RunAnalysis: output branch "event"
  branches,                \* RunAnalysis: the per-channel output branch buffers
  outputTree,              \* RunAnalysis: the entries filled into outputTree
  monFile,                 \* monitor: size of the tailed file, in quarter records
  mon,                     \* monitor: the file monitor and its stream
  delivered                \* monitor: the events handed to UpdateEventNumber

convVars == <<cfg, files, pc, fpos, channelEof, tree, eventCount,
              encounteredError, consistencyWarningCount, log, result,
              committed, chunkData, thr, readCount, batch,
              totalEventsProcessed, chunkNumber, channelEvents, evt>>

drvVars == <<opts, dpc, START, CHUNK_ID, PIDS, worker, outRoot, tempDir,
             exitStatus, merged>>

wfVars == <<waveform, features, analysed>>

runVars == <<inputTree, runOpts, runPc, iEntry, event, branches, outputTree>>

monVars == <<monFile, mon, delivered>>

otherVars == <<wfVars, runVars, monVars>>

vars == <<convVars, prevRun, drvVars, otherVars>>

EmptyLog == [warn |-> 0, err |-> 0, suppressed |-> 0, status |-> <<>>,
             chunkWarn |-> <<>>, skipInfo |-> 0, rounds |-> <<>>]

\* The state when main starts with configuration c on the files f.
InitConv(c, f) ==
  /\ cfg = c
  /\ files = f
  /\ pc = "main"
  /\ fpos = [ch \in Chans(c) |-> 0]
  /\ channelEof = [ch \in Chans(c) |-> FALSE]
  /\ tree = <<>>
  /\ eventCount = 0
  /\ encounteredError = FALSE
  /\ consistencyWarningCount = 0
  /\ log = EmptyLog
  /\ result = "running"
  /\ committed = <<>>
  /\ chunkData = [ch \in Chans(c) |-> <<>>]
  /\ thr = [t \in 0 .. (MinInt(c.max_cores, c.n_channels) - 1) |->
              [st |-> "none", chIdx |-> 0]]
  /\ readCount = [ch \in Chans(c) |-> 0]
  /\ batch = 0
  /\ totalEventsProcessed = 0
  /\ chunkNumber = 0
  /\ channelEvents = [ch \in Chans(c) |-> <<>>]
  /\ evt = 0

\* The converter while the extraction driver is what is running.
ConverterNotStarted ==
  /\ cfg = <<>>
  /\ files = <<>>
  /\ pc = "off"
  /\ fpos = <<>>
  /\ channelEof = <<>>
  /\ tree = <<>>
  /\ eventCount = 0
  /\ encounteredError = FALSE
  /\ consistencyWarningCount = 0
  /\ log = EmptyLog
  /\ result = "off"
  /\ committed = <<>>
  /\ chunkData = <<>>
  /\ thr = <<>>
  /\ readCount = <<>>
  /\ batch = 0
  /\ totalEventsProcessed = 0
  /\ chunkNumber = 0
  /\ channelEvents = <<>>
  /\ evt = 0

\* ---------------------------------------------------------------- main
\* main: the conversion routine is chosen from input_is_ascii and max_cores.
Main ==
  /\ pc = "main"
  /\ pc' = CASE Mode(cfg) = "ascii" -> "ascii_load"
             [] Mode(cfg) = "par"   -> "par_spawn"
             [] OTHER               -> "seq_loop"
  /\ UNCHANGED <<cfg, files, fpos, channelEof, tree, eventCount,
                 encounteredError, consistencyWarningCount, log, result,
                 committed, chunkData, thr, readCount, batch,
                 totalEventsProcessed, chunkNumber, channelEvents, evt>>

\* ------------------------------------------------- ConvertBinaryToRoot
\* static_cast<int>(payloadBytes / sizeof(float)) with payloadBytes =
\* eventSize - HEADER_BYTES computed in uint32_t
SeqSamples(h) == U32SubDiv4(h.eventSize, HEADER_BYTES)

\* the first channel >= 1 whose payload is not a multiple of 4 bytes, or -1
SeqBadPayloadChannel(c, hdrs) ==
  LET bad == {ch \in Chans(c) : ch >= 1 /\
                U32SubMod4(hdrs[ch].eventSize, HEADER_BYTES) # 0}
  IN IF bad = {} THEN -1 ELSE SetMin(bad)

\* One filled entry of the tree.
Entry(c, idx, hdrs, raws, nsamp, maxSamples, peds, src) ==
  [event |-> idx,
   nsamples |-> maxSamples,
   time_len |-> maxSamples,
   nsamples_per_channel |-> nsamp,
   board_ids |-> [ch \in Chans(c) |-> hdrs[ch].boardId],
   channel_ids |-> [ch \in Chans(c) |-> hdrs[ch].channelId],
   event_counters |-> [ch \in Chans(c) |-> hdrs[ch].eventCounter],
   pedestals |-> peds,
   raw |-> [ch \in Chans(c) |-> PadRaw(raws[ch], maxSamples, peds[ch])],
   ped |-> [ch \in Chans(c) |->
              Corrected(raws[ch], nsamp[ch], maxSamples, peds[ch], c.ped_target)],
   src |-> src]

\* pedestal of the sequential path: nPed = min(nsampCh, max(1, pedestal_window)),
\* pedVal /= nPed
SeqPedestal(c, rawS, nsampCh) ==
  LET nPed == MinInt(nsampCh, MaxInt(1, c.pedestal_window))
  IN PedestalOf(rawS, nPed, nPed)

SeqUnchangedPar == UNCHANGED <<cfg, files, committed, chunkData, thr, readCount, batch,
                               totalEventsProcessed, chunkNumber,
                               channelEvents, evt>>

\* One iteration of the while (running) loop.
SeqRound ==
  /\ pc = "seq_loop"
  /\ LET c == cfg
         can(ch) == fpos[ch] < Len(files[ch])
         anyEof == \E ch \in Chans(c) : ~can(ch)
         hdrs == [ch \in Chans(c) |-> files[ch][fpos[ch] + 1]]
         nsamp == [ch \in Chans(c) |-> SeqSamples(hdrs[ch])]
         issues == ConsistencyIssues(c, hdrs)
         st0 == [count |-> consistencyWarningCount, warn |-> log.warn,
                 err |-> log.err, suppressed |-> log.suppressed]
         st1 == PrintIssues(c.event_policy, issues, st0)
         logI == [log EXCEPT !.warn = st1.warn, !.err = st1.err,
                             !.suppressed = st1.suppressed]
         skipEvent == Len(issues) > 0 /\ c.event_policy = "skip"
         maxSamples == SeqMaxOf(nsamp, Chans(c))
         hasMismatch == HasMismatch(nsamp, Chans(c))
         readFailed == [ch \in Chans(c) |-> hdrs[ch].avail < nsamp[ch]]
         raws == [ch \in Chans(c) |-> hdrs[ch].samples]
         peds == [ch \in Chans(c) |-> SeqPedestal(c, raws[ch], nsamp[ch])]
         entry == Entry(c, eventCount, hdrs, raws, nsamp, maxSamples, peds,
                        [ch \in Chans(c) |-> fpos[ch] + 1])
         stop(err, lg, cnt) ==
           /\ pc' = "seq_end"
           /\ encounteredError' = err
           /\ log' = lg
           /\ consistencyWarningCount' = cnt
           /\ UNCHANGED <<tree, eventCount, result>>
     IN IF anyEof
        THEN /\ channelEof' = [ch \in Chans(c) |-> channelEof[ch] \/ ~can(ch)]
             /\ fpos' = [ch \in Chans(c) |-> IF can(ch) THEN fpos[ch] + 1 ELSE fpos[ch]]
             /\ stop(encounteredError,
                     [log EXCEPT !.status = Append(@,
                        [kind |-> "eof", at |-> eventCount,
                         flags |-> [ch \in Chans(c) |-> channelEof[ch] \/ ~can(ch)]])],
                     consistencyWarningCount)
        ELSE /\ channelEof' = channelEof
             /\ fpos' = [ch \in Chans(c) |-> fpos[ch] + 1]
             /\ IF hdrs[0].eventSize <= HEADER_BYTES
                THEN stop(TRUE, [log EXCEPT !.err = @ + 1], consistencyWarningCount)
                ELSE IF U32SubMod4(hdrs[0].eventSize, HEADER_BYTES) # 0
                THEN stop(TRUE, [log EXCEPT !.err = @ + 1], consistencyWarningCount)
                ELSE IF SeqBadPayloadChannel(c, hdrs) # -1
                THEN stop(TRUE, [log EXCEPT !.err = @ + 1], consistencyWarningCount)
                ELSE IF Len(issues) > 0 /\ c.event_policy = "error"
                THEN stop(TRUE, logI, st1.count)
                ELSE IF hasMismatch /\ c.nsamples_policy = "strict"
                THEN stop(TRUE, [logI EXCEPT !.err = @ + 1], st1.count)
                ELSE IF \E ch \in Chans(c) : readFailed[ch]
                THEN IF maxSamples > MaxSamples /\ c.alloc_throws
                     THEN \* resize() to a wrapped-around sample count throws
                          \* std::bad_alloc: main returns 3
                          /\ pc' = "done"
                          /\ result' = "fail"
                          /\ log' = logI
                          /\ consistencyWarningCount' = st1.count
                          /\ UNCHANGED <<tree, eventCount, encounteredError>>
                     ELSE stop(encounteredError,
                               [logI EXCEPT !.status = Append(@,
                                  [kind |-> "readfail", at |-> eventCount,
                                   flags |-> readFailed])],
                               st1.count)
                ELSE /\ tree' = IF skipEvent THEN tree ELSE Append(tree, entry)
                     /\ eventCount' = eventCount + 1
                     /\ log' = logI
                     /\ consistencyWarningCount' = st1.count
                     /\ UNCHANGED <<pc, encounteredError, result>>
  /\ SeqUnchangedPar

\* After the loop: no event, or an earlier error, fails without writing the tree.
SeqFinish ==
  /\ pc = "seq_end"
  /\ pc' = "done"
  /\ IF eventCount = 0 \/ encounteredError
     THEN result' = "fail" /\ committed' = committed
     ELSE result' = "ok" /\ committed' = tree
  /\ log' = IF eventCount = 0 \/ encounteredError
            THEN [log EXCEPT !.err = @ + 1] ELSE log
  /\ UNCHANGED <<cfg, files, fpos, channelEof, tree, eventCount,
                 encounteredError, consistencyWarningCount, chunkData, thr, readCount,
                 batch, totalEventsProcessed, chunkNumber, channelEvents, evt>>

\* ------------------------------------------------------ ReadChannelChunk
\* Reads up to chunkSize records of one channel file from frame pos on.
\* The result is where the file is left, the events read, whether eofReached
\* was set, and the return value (which the reader thread drops).
RECURSIVE ReadChunkFrom(_, _, _, _, _)
ReadChunkFrom(f, pos, i, chunkSize, events) ==
  IF i >= chunkSize
  THEN [pos |-> pos, events |-> events, eof |-> FALSE, ret |-> TRUE]
  ELSE IF pos >= Len(f)
  THEN [pos |-> pos, events |-> events, eof |-> TRUE, ret |-> TRUE]
  ELSE LET h == f[pos + 1]
           nsamples == U32SubDiv4(h.eventSize, HEADER_BYTES)
           \* a short read leaves the rest of the zero-initialised buffer
           buffer == [j \in 1 .. nsamples |->
                        IF j <= h.avail THEN h.samples[j] ELSE 0]
           ev == [boardId |-> h.boardId, channelId |-> h.channelId,
                  eventCounter |-> h.eventCounter, samples |-> buffer,
                  at |-> pos + 1]
       IN IF h.eventSize <= HEADER_BYTES
          THEN [pos |-> pos + 1, events |-> events, eof |-> FALSE, ret |-> FALSE]
          ELSE IF U32SubMod4(h.eventSize, HEADER_BYTES) # 0
          THEN [pos |-> pos + 1, events |-> events, eof |-> FALSE, ret |-> FALSE]
          ELSE ReadChunkFrom(f, pos + 1, i + 1, chunkSize, Append(events, ev))

\* the reader without "eofReached = 1"
ReadChannelChunkNoEof(f, pos, chunkSize) ==
  [ReadChunkFrom(f, pos, 0, chunkSize, <<>>) EXCEPT !.eof = FALSE]
ReadChannelChunk(f, pos, chunkSize) == ReadChunkFrom(f, pos, 0, chunkSize, <<>>)

\* ------------------------------------------- ConvertBinaryToRootParallel
MaxThreads(c) == MinInt(c.max_cores, c.n_channels)

\* CheckEventLimit
kSetEventLimit(c) == c.max_events >= 0

ParUnchangedSeq == UNCHANGED <<cfg, files, eventCount, encounteredError,
                               channelEvents, evt>>

\* the channel index a thread of the batch starting at channel ch captures:
\* "int chIdx = ch + t", captured by value
CapturedByReference(ch, t) == ch
CapturedChannel(ch, t) == ch + t

\* the thread slots of the batch starting at channel `batch`
BatchSlots(c) ==
  {t \in 0 .. (MaxThreads(c) - 1) : batch + t < c.n_channels}

\* Start of one thread batch: threads.clear(), then emplace_back of the reader
\* threads of channels batch .. batch + maxThreads - 1.  The round's
\* chunkData is fresh.
ParSpawn ==
  /\ pc = "par_spawn"
  /\ pc' = "par_read"
  /\ thr' = [t \in 0 .. (MaxThreads(cfg) - 1) |->
               IF t \in BatchSlots(cfg)
               THEN [st |-> "running", chIdx |-> CapturedChannel(batch, t)]
               ELSE [st |-> "none", chIdx |-> 0]]
  /\ chunkData' = IF batch = 0 THEN [ch \in Chans(cfg) |-> <<>>] ELSE chunkData
  /\ readCount' = IF batch = 0 THEN [ch \in Chans(cfg) |-> 0] ELSE readCount
  /\ UNCHANGED <<fpos, channelEof, tree, consistencyWarningCount, log, result,
                 committed, batch, totalEventsProcessed, chunkNumber>>
  /\ ParUnchangedSeq

\* The body of reader thread t: it works on the channel it captured.  With a
\* negative chunk size events.reserve(chunkSize) asks for more than max_size()
\* elements and throws std::length_error; nothing in the thread catches it, so
\* std::terminate ends the process with the thread never joined.
ThreadRead(t) ==
  /\ thr[t].st = "running"
  /\ pc # "terminated"
  /\ LET ch == thr[t].chIdx
     IN /\ readCount' = [readCount EXCEPT ![ch] = @ + 1]
        /\ IF channelEof[ch]
           THEN /\ thr' = [thr EXCEPT ![t].st = "done"]
                /\ UNCHANGED <<pc, fpos, channelEof, chunkData>>
           ELSE IF cfg.chunk_size < 0
           THEN /\ pc' = "terminated"
                /\ UNCHANGED <<thr, fpos, channelEof, chunkData>>
           ELSE LET r == ReadChannelChunk(files[ch], fpos[ch], cfg.chunk_size)
                IN /\ thr' = [thr EXCEPT ![t].st = "done"]
                   /\ fpos' = [fpos EXCEPT ![ch] = r.pos]
                   /\ channelEof' = [channelEof EXCEPT ![ch] = r.eof]
                   /\ chunkData' = [chunkData EXCEPT ![ch] = r.events]
                   /\ UNCHANGED pc
  /\ UNCHANGED <<tree, consistencyWarningCount, log, result, committed,
                 batch, totalEventsProcessed, chunkNumber>>
  /\ ParUnchangedSeq

\* the main thread going on without thread.join()
ParJoinNoWait ==
  /\ pc = "par_read"
  /\ IF batch + MaxThreads(cfg) < cfg.n_channels
     THEN pc' = "par_spawn" /\ batch' = batch + MaxThreads(cfg)
     ELSE pc' = "par_merge" /\ batch' = 0
  /\ UNCHANGED <<thr, readCount, fpos, channelEof, tree, consistencyWarningCount,
                 log, result, committed, chunkData, totalEventsProcessed,
                 chunkNumber>>
  /\ ParUnchangedSeq

\* thread.join() of every thread of the batch, then the next batch or the merge.
ParJoin ==
  /\ pc = "par_read"
  /\ \A t \in DOMAIN thr : thr[t].st # "running"
  /\ thr' = [t \in DOMAIN thr |-> [st |-> "none", chIdx |-> 0]]
  /\ IF batch + MaxThreads(cfg) < cfg.n_channels
     THEN pc' = "par_spawn" /\ batch' = batch + MaxThreads(cfg)
     ELSE pc' = "par_merge" /\ batch' = 0
  /\ UNCHANGED <<fpos, channelEof, tree, consistencyWarningCount, log, result,
                 committed, chunkData, readCount, totalEventsProcessed, chunkNumber>>
  /\ ParUnchangedSeq

\* pedestal of the parallel and ASCII paths: nPed = min(raw.size(), pedWindow),
\* pedVal /= max(1, nPed)
ParPedestal(c, rawS) ==
  LET nPed == MinInt(Len(rawS), MaxInt(1, c.pedestal_window))
  IN PedestalOf(rawS, nPed, MaxInt(1, nPed))

\* The "Fill TTree with this chunk" loop from event e on.
\* st = [tree, total, count, log, aborted, taken]; taken counts the events of
\* the chunk that went through the loop body.
RECURSIVE ParFillFrom(_, _, _, _, _)
ParFillFrom(c, cd, e, nEventsInChunk, st) ==
  IF e >= nEventsInChunk THEN st
  ELSE IF kSetEventLimit(c) /\ e >= c.max_events THEN st
  ELSE
    LET hdrs == [ch \in Chans(c) |-> cd[ch][e + 1]]
        nsamp == [ch \in Chans(c) |-> Len(hdrs[ch].samples)]
        issues == ConsistencyIssues(c, hdrs)
        p0 == [count |-> st.count, warn |-> st.log.warn, err |-> st.log.err,
               suppressed |-> st.log.suppressed]
        p1 == PrintIssues(c.event_policy, issues, p0)
        skipEvent == Len(issues) > 0 /\ c.event_policy = "skip"
        logI == [st.log EXCEPT !.warn = p1.warn, !.err = p1.err,
                               !.suppressed = p1.suppressed,
                               !.skipInfo = IF skipEvent THEN 1 ELSE @]
        maxSamples == SeqMaxOf(nsamp, Chans(c))
        hasMismatch == HasMismatch(nsamp, Chans(c))
        raws == [ch \in Chans(c) |-> hdrs[ch].samples]
        peds == [ch \in Chans(c) |-> ParPedestal(c, raws[ch])]
        entry == Entry(c, st.total, hdrs, raws, nsamp, maxSamples, peds,
                       [ch \in Chans(c) |-> hdrs[ch].at])
    IN IF Len(issues) > 0 /\ c.event_policy = "error"
       THEN [st EXCEPT !.aborted = TRUE, !.log = logI, !.count = p1.count]
       ELSE IF hasMismatch /\ c.nsamples_policy = "strict"
       THEN [st EXCEPT !.aborted = TRUE, !.log = [logI EXCEPT !.err = @ + 1],
                       !.count = p1.count]
       ELSE ParFillFrom(c, cd, e + 1, nEventsInChunk,
              [st EXCEPT !.log = logI, !.count = p1.count, !.taken = @ + 1,
                         !.tree = IF skipEvent THEN @ ELSE Append(@, entry),
                         !.total = IF skipEvent THEN @ ELSE @ + 1])

\* the minimum number of events across the channels of the round
MinChunkEvents(c, cd) == SetMin({Len(cd[ch]) : ch \in Chans(c)})

\* After the join: the all-EOF test, the minimum count, the fill loop.
ParMerge ==
  /\ pc = "par_merge"
  /\ LET c == cfg
         allEof == \A ch \in Chans(c) : channelEof[ch] /\ Len(chunkData[ch]) = 0
         nEventsInChunk == MinChunkEvents(c, chunkData)
         chunkMismatch == \E ch \in Chans(c) : Len(chunkData[ch]) # Len(chunkData[0])
         logM == IF chunkMismatch
                 THEN [log EXCEPT !.chunkWarn = Append(@,
                         [chunk |-> chunkNumber,
                          counts |-> [ch \in Chans(c) |-> Len(chunkData[ch])],
                          eof |-> channelEof,
                          minimum |-> nEventsInChunk])]
                 ELSE log
         st == ParFillFrom(c, chunkData, 0, nEventsInChunk,
                 [tree |-> tree, total |-> totalEventsProcessed,
                  count |-> consistencyWarningCount, log |-> logM,
                  aborted |-> FALSE, taken |-> 0])
         \* what the round did: [counts, ats, warned, taken, aborted]; ats are
         \* the file positions of the records in the chunk buffers
         Round(l, taken, aborted) ==
           [l EXCEPT !.rounds = Append(@,
              [counts |-> [ch \in Chans(c) |-> Len(chunkData[ch])],
               ats |-> [ch \in Chans(c) |->
                          [i \in 1 .. Len(chunkData[ch]) |-> chunkData[ch][i].at]],
               warned |-> chunkMismatch, taken |-> taken,
               aborted |-> aborted])]
     IN IF allEof
        THEN /\ pc' = "par_end"
             /\ UNCHANGED <<tree, consistencyWarningCount, log, result,
                            totalEventsProcessed, chunkNumber>>
        ELSE IF nEventsInChunk = 0
        THEN /\ pc' = "par_end"
             /\ log' = Round(logM, 0, FALSE)
             /\ UNCHANGED <<tree, consistencyWarningCount, result,
                            totalEventsProcessed, chunkNumber>>
        ELSE IF st.aborted
        THEN /\ pc' = "done"
             /\ result' = "fail"
             /\ tree' = st.tree
             /\ totalEventsProcessed' = st.total
             /\ consistencyWarningCount' = st.count
             /\ log' = Round(st.log, st.taken, TRUE)
             /\ UNCHANGED chunkNumber
        ELSE /\ pc' = "par_spawn"
             /\ tree' = st.tree
             /\ totalEventsProcessed' = st.total
             /\ consistencyWarningCount' = st.count
             /\ log' = Round(st.log, st.taken, FALSE)
             /\ chunkNumber' = chunkNumber + 1
             /\ UNCHANGED result
  /\ UNCHANGED <<fpos, channelEof, committed, chunkData, thr, readCount, batch>>
  /\ ParUnchangedSeq

\* After the chunk loop: no event fails; otherwise the tree is written.
ParFinish ==
  /\ pc = "par_end"
  /\ pc' = "done"
  /\ IF totalEventsProcessed = 0
     THEN result' = "fail" /\ committed' = committed /\ log' = [log EXCEPT !.err = @ + 1]
     ELSE result' = "ok" /\ committed' = tree /\ log' = log
  /\ UNCHANGED <<fpos, channelEof, tree, consistencyWarningCount, chunkData,
                 thr, readCount, batch, totalEventsProcessed, chunkNumber>>
  /\ ParUnchangedSeq

\* --------------------------------------------------- ConvertAsciiToRoot
\* LoadAsciiChannelFile, on a file whose text blocks carry the fields of the
\* frames: a block without samples is dropped by finalizeBlock.
RECURSIVE AsciiBlocksFrom(_, _)
AsciiBlocksFrom(f, j) ==
  IF j > Len(f) THEN <<>>
  ELSE LET h == f[j]
           block == [boardId |-> h.boardId, channelId |-> h.channelId,
                     eventCounter |-> h.eventCounter,
                     samples |-> SubSeq(h.samples, 1, h.avail), at |-> j]
       IN (IF h.avail = 0 THEN <<>> ELSE <<block>>) \o AsciiBlocksFrom(f, j + 1)

LoadAsciiChannelFile(f) == AsciiBlocksFrom(f, 1)

AsciiUnchangedBin == UNCHANGED <<cfg, files, fpos, channelEof, eventCount,
                                 encounteredError, consistencyWarningCount,
                                 chunkData, thr, readCount, batch, totalEventsProcessed,
                                 chunkNumber>>

\* Loading of all channel files; a file without events fails the run.
AsciiLoad ==
  /\ pc = "ascii_load"
  /\ LET loaded == [ch \in Chans(cfg) |-> LoadAsciiChannelFile(files[ch])]
         failed == \E ch \in Chans(cfg) : Len(loaded[ch]) = 0
         mismatch == \E ch \in Chans(cfg) : Len(loaded[ch]) # Len(loaded[0])
     IN /\ channelEvents' = loaded
        /\ IF failed
           THEN pc' = "done" /\ result' = "fail" /\ log' = [log EXCEPT !.err = @ + 1]
           ELSE /\ pc' = "ascii_loop"
                /\ result' = result
                /\ log' = IF mismatch
                          THEN [log EXCEPT !.chunkWarn = Append(@,
                                  [chunk |-> 0,
                                   counts |-> [ch \in Chans(cfg) |-> Len(loaded[ch])],
                                   eof |-> [ch \in Chans(cfg) |-> TRUE],
                                   minimum |-> SetMin({Len(loaded[ch]) : ch \in Chans(cfg)})])]
                          ELSE log
  /\ UNCHANGED <<tree, committed, evt>>
  /\ AsciiUnchangedBin

\* expectedEvents = minEvents
ExpectedEvents == SetMin({Len(channelEvents[ch]) : ch \in Chans(cfg)})

AsciiLoopEnds ==
  \/ evt >= ExpectedEvents
  \/ (kSetEventLimit(cfg) /\ evt >= cfg.max_events)

\* One iteration of the event loop.
AsciiRound ==
  /\ pc = "ascii_loop"
  /\ ~AsciiLoopEnds
  /\ LET c == cfg
         hdrs == [ch \in Chans(c) |-> channelEvents[ch][evt + 1]]
         nsamp == [ch \in Chans(c) |-> Len(hdrs[ch].samples)]
         maxSamples == SeqMaxOf(nsamp, Chans(c))
         hasMismatch == HasMismatch(nsamp, Chans(c))
         issues == ConsistencyIssues(c, hdrs)
         p1 == PrintIssuesAscii(c.event_policy, issues,
                                [warn |-> log.warn, err |-> log.err])
         skipEvent == Len(issues) > 0 /\ c.event_policy = "skip"
         logI == [log EXCEPT !.warn = p1.warn, !.err = p1.err,
                             !.skipInfo = IF skipEvent THEN 1 ELSE @]
         raws == [ch \in Chans(c) |-> hdrs[ch].samples]
         peds == [ch \in Chans(c) |-> ParPedestal(c, raws[ch])]
         entry == Entry(c, evt, hdrs, raws, nsamp, maxSamples, peds,
                        [ch \in Chans(c) |-> hdrs[ch].at])
     IN IF hasMismatch /\ c.nsamples_policy = "strict"
        THEN /\ pc' = "done" /\ result' = "fail"
             /\ log' = [log EXCEPT !.err = @ + 1]
             /\ UNCHANGED <<tree, evt>>
        ELSE IF Len(issues) > 0 /\ c.event_policy = "error"
        THEN /\ pc' = "done" /\ result' = "fail"
             /\ log' = logI
             /\ UNCHANGED <<tree, evt>>
        ELSE /\ tree' = IF skipEvent THEN tree ELSE Append(tree, entry)
             /\ evt' = evt + 1
             /\ log' = logI
             /\ UNCHANGED <<pc, result>>
  /\ UNCHANGED <<committed, channelEvents>>
  /\ AsciiUnchangedBin

\* After the loop the tree is written and the run succeeds.
AsciiFinish ==
  /\ pc = "ascii_loop"
  /\ AsciiLoopEnds
  /\ pc' = "done"
  /\ result' = "ok"
  /\ committed' = tree
  /\ UNCHANGED <<tree, log, channelEvents, evt>>
  /\ AsciiUnchangedBin

\* ------------------------------------------------------------ converter
ConvStep ==
  \/ Main
  \/ SeqRound
  \/ SeqFinish
  \/ ParSpawn
  \/ \E t \in DOMAIN thr : ThreadRead(t)
  \/ ParJoin
  \/ ParMerge
  \/ ParFinish
  \/ AsciiLoad
  \/ AsciiRound
  \/ AsciiFinish

NextConv == ConvStep /\ UNCHANGED <<prevRun, drvVars, otherVars>>

\* The converter is run a second time on the same files with the same
\* settings, now with --parallel (max_cores raised to 2 by ApplyCommandLineArgs).
Rerun ==
  /\ pc = "done"
  /\ prevRun = <<>>
  /\ Mode(cfg) = "seq"
  /\ prevRun' = <<[result |-> result, committed |-> committed]>>
  /\ cfg' = [cfg EXCEPT !.max_cores = 2]
  /\ pc' = "main"
  /\ fpos' = [ch \in Chans(cfg) |-> 0]
  /\ channelEof' = [ch \in Chans(cfg) |-> FALSE]
  /\ tree' = <<>>
  /\ eventCount' = 0
  /\ encounteredError' = FALSE
  /\ consistencyWarningCount' = 0
  /\ log' = EmptyLog
  /\ result' = "running"
  /\ committed' = <<>>
  /\ UNCHANGED <<files, chunkData, thr, readCount, batch, totalEventsProcessed,
                 chunkNumber, channelEvents, evt>>

BinaryStep ==
  \/ Main
  \/ SeqRound
  \/ SeqFinish
  \/ ParSpawn
  \/ \E t \in DOMAIN thr : ThreadRead(t)
  \/ ParJoin
  \/ ParMerge
  \/ ParFinish

NextEquiv ==
  \/ BinaryStep /\ UNCHANGED <<prevRun, drvVars, otherVars>>
  \/ Rerun /\ UNCHANGED <<drvVars, otherVars>>


\* --------------------------------------------------- parallel_analyze.sh
\* "set -e" at the top of the script
ErrExitOff == FALSE
ErrExit == TRUE

NoFile == [exists |-> FALSE, entries |-> <<>>]
File(es) == [exists |-> TRUE, entries |-> es]

\* NUM_CHUNKS=$(( (NUM_EVENTS + CHUNK_SIZE - 1) / CHUNK_SIZE ))
NUM_CHUNKS(o) == (o.NUM_EVENTS + o.CHUNK_SIZE - 1) \div o.CHUNK_SIZE

ChunkIds(o) == 0 .. NUM_CHUNKS(o) - 1

\* RunAnalysis: the entries [startEntry, endEntry) of the input tree
EventRange(eventStart, eventEnd, totalEntries) ==
  LET startEntry == IF eventStart >= 0 THEN eventStart ELSE 0
      endEntry0  == IF eventEnd >= 0 THEN eventEnd ELSE totalEntries
      endEntry   == IF endEntry0 > totalEntries THEN totalEntries ELSE endEntry0
  IN  [startEntry |-> startEntry, endEntry |-> endEntry,
       valid |-> startEntry < endEntry]

\* the event indices of the entries the analyzer fills for a range
AnalyzedEntries(r) ==
  [i \in 1 .. (r.endEntry - r.startEntry) |-> r.startEntry + i - 1]

\* The script before it runs, and while the converter is what is running.
DriverNotStarted ==
  /\ opts = [NUM_EVENTS |-> 1, CHUNK_SIZE |-> 1, MAX_CORES |-> 1]
  /\ dpc = "off"
  /\ START = 0
  /\ CHUNK_ID = 0
  /\ PIDS = <<>>
  /\ worker = <<>>
  /\ outRoot = <<>>
  /\ tempDir = <<>>
  /\ exitStatus = -1
  /\ merged = NoFile

\* The script after "rm -rf $TEMP_DIR; mkdir -p $TEMP_DIR", at the dispatch loop.
InitDriver(o) ==
  /\ opts = o
  /\ dpc = "dispatch"
  /\ START = 0
  /\ CHUNK_ID = 0
  /\ PIDS = <<>>
  /\ worker = [c \in ChunkIds(o) |->
                 [st |-> "none", rc |-> 0, status |-> -1, start |-> 0, end |-> 0]]
  /\ outRoot = [c \in ChunkIds(o) |-> NoFile]
  /\ tempDir = [c \in ChunkIds(o) |-> NoFile]
  /\ exitStatus = -1
  /\ merged = NoFile

\* the dispatch step with END left at START + CHUNK_SIZE
DrvDispatchNoClip ==
  /\ dpc = "dispatch"
  /\ START < opts.NUM_EVENTS
  /\ Len(PIDS) < opts.MAX_CORES
  /\ worker' = [worker EXCEPT ![CHUNK_ID] =
                  [st |-> "analyze", rc |-> 0, status |-> -1,
                   start |-> START, end |-> START + opts.CHUNK_SIZE]]
  /\ PIDS' = Append(PIDS, CHUNK_ID)
  /\ CHUNK_ID' = CHUNK_ID + 1
  /\ START' = START + opts.CHUNK_SIZE
  /\ UNCHANGED <<opts, dpc, outRoot, tempDir, exitStatus, merged>>

\* for ((START=0; START<NUM_EVENTS; START+=CHUNK_SIZE)): process_chunk ... &
DrvDispatch ==
  /\ dpc = "dispatch"
  /\ START < opts.NUM_EVENTS
  /\ Len(PIDS) < opts.MAX_CORES
  /\ LET END0 == START + opts.CHUNK_SIZE
         END  == IF END0 > opts.NUM_EVENTS THEN opts.NUM_EVENTS ELSE END0
     IN  worker' = [worker EXCEPT ![CHUNK_ID] =
                      [st |-> "analyze", rc |-> 0, status |-> -1,
                       start |-> START, end |-> END]]
  /\ PIDS' = Append(PIDS, CHUNK_ID)
  /\ CHUNK_ID' = CHUNK_ID + 1
  /\ START' = START + opts.CHUNK_SIZE
  /\ UNCHANGED <<opts, dpc, outRoot, tempDir, exitStatus, merged>>

\* PIDS with the finished workers removed and re-indexed
StillRunning(pids) == SelectSeq(pids, LAMBDA c : worker[c].st # "exited")

\* the first finished worker of pids with a non-zero status, as a set
FirstFailed(pids) ==
  {i \in 1 .. Len(pids) :
     /\ worker[pids[i]].st = "exited" /\ worker[pids[i]].status # 0
     /\ \A j \in 1 .. i - 1 :
          ~(worker[pids[j]].st = "exited" /\ worker[pids[j]].status # 0)}

\* while [ ${#PIDS[@]} -ge $MAX_CORES ]: one pass over PIDS that finds a
\* finished worker; "wait" on a failed one ends the script under set -e.
DrvThrottle ==
  /\ dpc = "dispatch"
  /\ START < opts.NUM_EVENTS
  /\ Len(PIDS) >= opts.MAX_CORES
  /\ \E i \in 1 .. Len(PIDS) : worker[PIDS[i]].st = "exited"
  /\ IF ErrExit /\ FirstFailed(PIDS) # {}
     THEN /\ dpc' = "exit"
          /\ exitStatus' = worker[PIDS[CHOOSE i \in FirstFailed(PIDS) : TRUE]].status
          /\ UNCHANGED PIDS
     ELSE /\ PIDS' = StillRunning(PIDS)
          /\ UNCHANGED <<dpc, exitStatus>>
  /\ UNCHANGED <<opts, START, CHUNK_ID, worker, outRoot, tempDir, merged>>

\* the dispatch loop ends
DrvLoopEnd ==
  /\ dpc = "dispatch"
  /\ START >= opts.NUM_EVENTS
  /\ dpc' = "wait"
  /\ UNCHANGED <<opts, START, CHUNK_ID, PIDS, worker, outRoot, tempDir,
                 exitStatus, merged>>

\* for PID in "${PIDS[@]}"; do wait $PID; done
DrvWait ==
  /\ dpc = "wait"
  /\ IF PIDS = <<>>
     THEN /\ dpc' = "merge"
          /\ UNCHANGED <<PIDS, exitStatus>>
     ELSE /\ worker[Head(PIDS)].st = "exited"
          /\ IF ErrExit /\ worker[Head(PIDS)].status # 0
             THEN /\ dpc' = "exit"
                  /\ exitStatus' = worker[Head(PIDS)].status
                  /\ UNCHANGED PIDS
             ELSE /\ PIDS' = Tail(PIDS)
                  /\ UNCHANGED <<dpc, exitStatus>>
  /\ UNCHANGED <<opts, START, CHUNK_ID, worker, outRoot, tempDir, merged>>

\* decimal digits of a chunk id, then the '.' of ".root" (which sorts before
\* every digit)
RECURSIVE Digits(_)
Digits(n) == IF n < 10 THEN <<n>> ELSE Append(Digits(n \div 10), n % 10)

ChunkName(c) == Append(Digits(c), -1)

\* byte-wise order of two file names
RECURSIVE NameLess(_, _)
NameLess(a, b) ==
  IF a = <<>> THEN b # <<>>
  ELSE IF b = <<>> THEN FALSE
  ELSE IF Head(a) # Head(b) THEN Head(a) < Head(b)
  ELSE NameLess(Tail(a), Tail(b))

\* "$TEMP_DIR"/chunk_*.root: the existing files in the order of the glob
RECURSIVE GlobFrom(_, _)
GlobFrom(S, acc) ==
  IF S = {} THEN acc
  ELSE LET first == CHOOSE c \in S :
                      \A d \in S \ {c} : NameLess(ChunkName(c), ChunkName(d))
       IN  GlobFrom(S \ {first}, Append(acc, first))

Glob(dir) == GlobFrom({c \in DOMAIN dir : dir[c].exists}, <<>>)

\* hadd -f target sources...: the trees appended in argument order
RECURSIVE Hadd(_, _)
Hadd(dir, names) ==
  IF names = <<>> THEN <<>>
  ELSE dir[Head(names)].entries \o Hadd(dir, Tail(names))

\* the missing-chunk check, then the merge
DrvMerge ==
  /\ dpc = "merge"
  /\ LET MISSING_CHUNKS ==
           Cardinality({i \in ChunkIds(opts) : ~tempDir[i].exists})
     IN  IF MISSING_CHUNKS > 0
         THEN /\ exitStatus' = 1
              /\ UNCHANGED merged
         ELSE /\ merged' = File(Hadd(tempDir, Glob(tempDir)))
              /\ exitStatus' = 0
  /\ dpc' = "exit"
  /\ UNCHANGED <<opts, START, CHUNK_ID, PIDS, worker, outRoot, tempDir>>

\* process_chunk: the analyzer runs on --event-range START:END.  It writes the
\* chunk and exits 0, or fails before it creates the output file, or fails on
\* nsamplesError after it created the file (closed without the tree).
AnalyzerOutcomes == {"ok", "fail", "nsamplesError"}

WorkerAnalyze(c) ==
  /\ dpc # "off"
  /\ worker[c].st = "analyze"
  /\ \E outcome \in AnalyzerOutcomes :
       LET r  == EventRange(worker[c].start, worker[c].end, opts.NUM_EVENTS)
           rc == IF outcome = "ok" /\ r.valid THEN 0 ELSE 2
       IN  /\ outRoot' = [outRoot EXCEPT ![c] =
                            IF rc = 0 THEN File(AnalyzedEntries(r))
                            ELSE IF outcome = "nsamplesError" THEN File(<<>>)
                            ELSE @]
           /\ worker' = [worker EXCEPT ![c] =
                           IF ErrExit /\ rc # 0
                           THEN [@ EXCEPT !.st = "exited", !.rc = rc, !.status = rc]
                           ELSE [@ EXCEPT !.st = "move", !.rc = rc]]
  /\ UNCHANGED <<opts, dpc, START, CHUNK_ID, PIDS, tempDir, exitStatus, merged>>

\* process_chunk: mv the chunk into $TEMP_DIR, or "return 1"
WorkerMove(c) ==
  /\ dpc # "off"
  /\ worker[c].st = "move"
  /\ IF outRoot[c].exists
     THEN /\ tempDir' = [tempDir EXCEPT ![c] = outRoot[c]]
          /\ outRoot' = [outRoot EXCEPT ![c] = NoFile]
          /\ worker' = [worker EXCEPT ![c] = [@ EXCEPT !.st = "exited", !.status = 0]]
     ELSE /\ worker' = [worker EXCEPT ![c] = [@ EXCEPT !.st = "exited", !.status = 1]]
          /\ UNCHANGED <<outRoot, tempDir>>
  /\ UNCHANGED <<opts, dpc, START, CHUNK_ID, PIDS, exitStatus, merged>>

NextDriver ==
  /\ \/ DrvDispatch
     \/ DrvThrottle
     \/ DrvLoopEnd
     \/ DrvWait
     \/ DrvMerge
     \/ \E c \in ChunkIds(opts) : WorkerAnalyze(c)
     \/ \E c \in ChunkIds(opts) : WorkerMove(c)
  /\ UNCHANGED <<convVars, prevRun, otherVars>>

\* ------------------------------------------------ one waveform analysed
\* AnalysisConfig for one channel, with the defaults of analysis_config.h
\* where the inputs do not vary them.
PerChannel(n, v) == [k \in 1 .. n |-> v]

WaveConfig(n, analysis, baseline, signal, charge, polarity, charge_thresholds) ==
  [analysis_region_min |-> PerChannel(n, analysis[1]),
   analysis_region_max |-> PerChannel(n, analysis[2]),
   baseline_region_min |-> PerChannel(n, baseline[1]),
   baseline_region_max |-> PerChannel(n, baseline[2]),
   signal_region_min |-> PerChannel(n, signal[1]),
   signal_region_max |-> PerChannel(n, signal[2]),
   charge_region_min |-> PerChannel(n, charge[1]),
   charge_region_max |-> PerChannel(n, charge[2]),
   signal_polarity |-> PerChannel(n, polarity),
   cut_amp_max |-> PerChannel(n, RInt(1)),
   snr_threshold |-> RInt(3),
   impedance |-> RInt(50),
   rise_time_low |-> R(1, 10), rise_time_high |-> R(9, 10),
   cfd_thresholds |-> <<20, 50>>,
   le_thresholds |-> <<RInt(2500), RInt(6000)>>,
   charge_thresholds |-> charge_thresholds]

\* the time axis of n samples, tsample_ns = 0.2 apart
TimeAxis(n) == [k \in 1 .. n |-> R(k - 1, 5)]

AmpValues == {RInt(0 - 2), RInt(0), RInt(3)}

WaveConfigs ==
  {WaveConfig(1, a, b, s, c, p, t) :
     a \in {<<RInt(0 - 100), RInt(200)>>, <<R(1, 5), R(1, 2)>>},
     b \in {<<RInt(0 - 50), RInt(0 - 10)>>, <<RInt(0), R(3, 10)>>},
     s \in {<<RInt(0), RInt(200)>>, <<R(1, 2), R(1, 10)>>, <<RInt(300), RInt(400)>>},
     c \in {<<RInt(0), RInt(200)>>, <<R(1, 10), R(1, 2)>>},
     p \in {1, 0 - 1},
     t \in {<<200>>, <<50, 200>>}}

WaveformNotAnalysed ==
  /\ waveform = [amp |-> <<>>, time |-> <<>>, cfg |-> <<>>]
  /\ features = DefaultFeatures
  /\ analysed = FALSE

\* ------------------------------------------------------------ RunAnalysis
\* The output branch buffers of a channel as RunAnalysis constructs them:
\* value-initialised vectors.
InitialBranch(c) ==
  [DefaultFeatures EXCEPT
     !.timeCFD = [b \in 1 .. Len(c.cfd_thresholds) |-> RInt(0)],
     !.jitterCFD = [b \in 1 .. Len(c.cfd_thresholds) |-> Root(FALSE, RInt(0))],
     !.timeLE = [b \in 1 .. Len(c.le_thresholds) |-> RInt(0)],
     !.jitterLE = [b \in 1 .. Len(c.le_thresholds) |-> Root(FALSE, RInt(0))],
     !.totLE = [b \in 1 .. Len(c.le_thresholds) |-> RInt(0)],
     !.timeCharge = [b \in 1 .. Len(c.charge_thresholds) |-> RInt(0)]]

RunAnalysisNotStarted ==
  /\ inputTree = <<>>
  /\ runOpts = <<>>
  /\ runPc = "off"
  /\ iEntry = 0
  /\ event = 0
  /\ branches = <<>>
  /\ outputTree = <<>>

\* RunAnalysis at its event loop, on the entries [startEntry, endEntry)
InitRun(entries, o) ==
  /\ inputTree = entries
  /\ runOpts = o
  /\ runPc = "loop"
  /\ iEntry = 0
  /\ event = 0
  /\ branches = [ch \in 0 .. (o.n_channels - 1) |-> InitialBranch(o.cfg)]
  /\ outputTree = <<>>

\* chSamples of channel ch for the entry e, 0 where the channel is skipped
EffectiveSamples(e, ch) ==
  IF e.chPed[ch] = <<>> THEN 0
  ELSE MaxInt(0, MinInt(MinInt(e.nsamples_per_channel[ch], Len(e.chPed[ch])),
                        Len(e.time_ns)))

\* the first samplesToUse elements: trimmedAmpBuf, trimmedTimeBuf
Trimmed(v, samplesToUse) == SubSeq(v, 1, samplesToUse)

\* One pass of the event loop: GetEntry, the sample counts, AnalyzeWaveform
\* per channel into the branch buffers, Fill.
ProcessEntry ==
  /\ runPc = "loop"
  /\ iEntry < runOpts.endEntry - runOpts.startEntry
  /\ LET e == inputTree[runOpts.startEntry + iEntry + 1]
         chans == 0 .. (runOpts.n_channels - 1)
         used == {ch \in chans : EffectiveSamples(e, ch) > 0}
         counts == {EffectiveSamples(e, ch) : ch \in used}
         hasMismatch == SetMax(counts) # SetMin(counts)
     IN  /\ event' = e.event
         /\ IF e.time_ns = <<>> \/ used = {}
            THEN /\ iEntry' = iEntry + 1
                 /\ UNCHANGED <<runPc, branches, outputTree>>
            ELSE IF hasMismatch /\ runOpts.policy = "strict"
            THEN /\ runPc' = "fail"
                 /\ UNCHANGED <<iEntry, branches, outputTree>>
            ELSE /\ branches' =
                      [ch \in chans |->
                         IF ch \in used
                         THEN AnalyzeWaveform(
                                Trimmed(e.chPed[ch], EffectiveSamples(e, ch)),
                                Trimmed(e.time_ns, EffectiveSamples(e, ch)),
                                runOpts.cfg, ch)
                         ELSE branches[ch]]
                 /\ outputTree' = Append(outputTree,
                                         [event |-> e.event, features |-> branches'])
                 /\ iEntry' = iEntry + 1
                 /\ UNCHANGED runPc
  /\ UNCHANGED <<inputTree, runOpts>>

\* after the loop: outputTree->Write(), return true
FinishRun ==
  /\ runPc = "loop"
  /\ iEntry = runOpts.endEntry - runOpts.startEntry
  /\ runPc' = "ok"
  /\ UNCHANGED <<inputTree, runOpts, iEntry, event, branches, outputTree>>

NextRun ==
  /\ ProcessEntry \/ FinishRun
  /\ UNCHANGED <<convVars, prevRun, drvVars, wfVars, monVars>>

\* -------------------------------------------------------- realtime monitor
\* The tailed file is measured in quarters of a record: a header is two
\* quarters and a payload two, so that a header and a payload can each be cut
\* short by the end of the file.  Record k (from 0) starts at RecordStart(k)
\* and its eventCounter is k.
RecordStart(k) == 4 * k
AfterHeader(pos) == pos + 2
AfterRecord(pos) == pos + 4
RecordAt(pos) == pos \div 4

MonitorKinds == {"BinaryFileMonitor", "FileMonitor"}

MonitorNotStarted ==
  /\ monFile = 0
  /\ mon = <<>>
  /\ delivered = <<>>

\* EventStats::UpdateEventNumber on the counters of EventStats.  The sum
\* latest_event_number + 1 is uint32_t; the model's event numbers stay far
\* below its wrap.
UpdateEventNumber(stats, new_event_number) ==
  [latest_event_number |-> new_event_number,
   total_events_read |-> stats.total_events_read + 1,
   event_gaps_detected |->
     IF stats.latest_event_number > 0
        /\ new_event_number # stats.latest_event_number + 1
     THEN stats.event_gaps_detected + 1
     ELSE stats.event_gaps_detected]

\* Open(): the monitor of either implementation on the file as it is, with
\* the EventStats of the RealtimeMonitor as constructed
InitMon(kind, size) ==
  /\ monFile = size
  /\ mon = [kind |-> kind, pc |-> "sleep", pos |-> 0, fail |-> FALSE,
            last_position |-> 0, has_new_data |-> FALSE,
            last_known_size |-> 0, recheck_done |-> FALSE,
            stats |-> [latest_event_number |-> 0, total_events_read |-> 0,
                       event_gaps_detected |-> 0]]
  /\ delivered = <<>>

\* the DAQ appends to the file
Grow ==
  /\ mon # <<>>
  /\ \E k \in 1 .. 4 :
       /\ monFile + k <= RecordStart(MaxMonRecords)
       /\ monFile' = monFile + k
  /\ UNCHANGED <<mon, delivered>>

\* file_.tellg(): -1 on a stream whose failbit is set
Tellg(m) == IF m.fail THEN 0 - 1 ELSE m.pos

\* BinaryFileMonitor::CheckNewData, by stat()
BinaryCheckNewData ==
  /\ mon # <<>> /\ mon.kind = "BinaryFileMonitor" /\ mon.pc = "sleep"
  /\ LET current_size == monFile
     IN  mon' =
           IF current_size > mon.last_position
           THEN [mon EXCEPT !.fail = FALSE, !.pos = mon.last_position,
                            !.has_new_data = TRUE,
                            !.recheck_done = IF current_size # mon.last_known_size
                                             THEN FALSE ELSE @,
                            !.last_known_size = current_size,
                            !.pc = "process"]
           ELSE IF current_size = mon.last_known_size
           THEN IF ~mon.recheck_done
                THEN [mon EXCEPT !.fail = FALSE, !.pos = mon.last_position,
                                 !.has_new_data = TRUE, !.recheck_done = TRUE,
                                 !.pc = "process"]
                ELSE [mon EXCEPT !.has_new_data = FALSE]
           ELSE [mon EXCEPT !.last_known_size = current_size,
                            !.recheck_done = FALSE, !.has_new_data = FALSE]
  /\ UNCHANGED <<monFile, delivered>>

\* One pass of the loop of ProcessNewEvents over
\* BinaryFileMonitor::ReadNextEvent.
BinaryReadNextEvent ==
  /\ mon # <<>> /\ mon.kind = "BinaryFileMonitor" /\ mon.pc = "process"
  /\ IF ~mon.has_new_data
     THEN /\ mon' = [mon EXCEPT !.pc = "sleep"]
          /\ UNCHANGED delivered
     ELSE LET current_pos == Tellg(mon)
          IN  IF monFile < AfterHeader(current_pos)
                 \/ monFile < AfterRecord(current_pos)
              THEN \* header or payload cut short: clear, seekg(current_pos)
                   /\ mon' = [mon EXCEPT !.fail = FALSE, !.pos = current_pos,
                                         !.has_new_data = FALSE, !.pc = "sleep"]
                   /\ UNCHANGED delivered
              ELSE /\ delivered' = Append(delivered,
                                          [event |-> RecordAt(current_pos),
                                           complete |-> TRUE])
                   /\ mon' = [mon EXCEPT
                                !.pos = AfterRecord(current_pos),
                                !.last_position = AfterRecord(current_pos),
                                !.has_new_data = monFile > AfterRecord(current_pos),
                                !.stats = UpdateEventNumber(@, RecordAt(current_pos))]
  /\ UNCHANGED monFile

\* FileMonitor::CheckNewData, by seekg(0, end) and tellg()
FileCheckNewData ==
  /\ mon # <<>> /\ mon.kind = "FileMonitor" /\ mon.pc = "sleep"
  /\ LET atEnd == IF mon.fail THEN mon ELSE [mon EXCEPT !.pos = monFile]
         current_size == Tellg(atEnd)
     IN  mon' = IF current_size > mon.last_position
                THEN [atEnd EXCEPT !.pos = mon.last_position, !.pc = "process"]
                ELSE atEnd
  /\ UNCHANGED <<monFile, delivered>>

\* One pass of the loop of RealtimeMonitor::ProcessNewEvents on the stream of
\* the FileMonitor, or the loop's exit and the update of last_position_.
FileProcessNewEvents ==
  /\ mon # <<>> /\ mon.kind = "FileMonitor" /\ mon.pc = "process"
  /\ IF mon.fail
     THEN \* file.good() is false: last_position_ = file.tellg()
          /\ mon' = [mon EXCEPT !.last_position = Tellg(mon), !.pc = "sleep"]
          /\ UNCHANGED delivered
     ELSE LET current_pos == mon.pos
          IN  IF monFile < AfterHeader(current_pos)
              THEN \* incomplete header: clear, seekg(current_pos), break
                   /\ mon' = [mon EXCEPT !.last_position = current_pos,
                                         !.pc = "sleep"]
                   /\ UNCHANGED delivered
              ELSE IF monFile < AfterRecord(current_pos)
              THEN \* read() stops at the end of the file: eofbit and failbit
                   \* are set, "!good() && !eof()" is false, the event is taken
                   /\ delivered' = Append(delivered,
                                          [event |-> RecordAt(current_pos),
                                           complete |-> FALSE])
                   /\ mon' = [mon EXCEPT
                                !.fail = TRUE, !.pos = monFile,
                                !.stats = UpdateEventNumber(@, RecordAt(current_pos))]
              ELSE /\ delivered' = Append(delivered,
                                          [event |-> RecordAt(current_pos),
                                           complete |-> TRUE])
                   /\ mon' = [mon EXCEPT
                                !.pos = AfterRecord(current_pos),
                                !.stats = UpdateEventNumber(@, RecordAt(current_pos))]
  /\ UNCHANGED monFile

NextMonitor ==
  /\ \/ Grow
     \/ BinaryCheckNewData
     \/ BinaryReadNextEvent
     \/ FileCheckNewData
     \/ FileProcessNewEvents
  /\ UNCHANGED <<convVars, prevRun, drvVars, wfVars, runVars>>

InitMonitor ==
  /\ prevRun = <<>>
  /\ ConverterNotStarted
  /\ DriverNotStarted
  /\ WaveformNotAnalysed
  /\ RunAnalysisNotStarted
  /\ \E kind \in MonitorKinds, size \in 0 .. RecordStart(MaxMonRecords) :
       InitMon(kind, size)

\* One pass of the loop of RealtimeMonitor::ProcessNewEvents with the event
\* the reader hands over carrying any event number a file can hold.
ProcessNewEvents ==
  /\ mon # <<>>
  /\ Len(delivered) < MaxDelivered
  /\ \E event_num \in 0 .. MaxEventNumber :
       /\ delivered' = Append(delivered, [event |-> event_num, complete |-> TRUE])
       /\ mon' = [mon EXCEPT !.stats = UpdateEventNumber(@, event_num)]
  /\ UNCHANGED monFile

NextStats ==
  /\ ProcessNewEvents
  /\ UNCHANGED <<convVars, prevRun, drvVars, wfVars, runVars>>

InitStats ==
  /\ prevRun = <<>>
  /\ ConverterNotStarted
  /\ DriverNotStarted
  /\ WaveformNotAnalysed
  /\ RunAnalysisNotStarted
  /\ \E kind \in MonitorKinds : InitMon(kind, 0)

OthersNotStarted ==
  WaveformNotAnalysed /\ RunAnalysisNotStarted /\ MonitorNotStarted

\* An input entry as the converter writes it under the "pad" policy: every
\* ch<NN>_ped has the length of time_ns, nsamples_per_channel the samples read.
PaddedEntry(idx, amps, nsamp) ==
  [event |-> idx,
   time_ns |-> TimeAxis(MaxRunSamples),
   chPed |-> amps,
   nsamples_per_channel |-> nsamp]

\* a pulse that ends high, one that starts high, one that starts low
Shape(kind, n) ==
  [k \in 1 .. n |->
     IF kind = "rise" THEN RInt(IF k = n THEN 3 ELSE 0)
     ELSE IF kind = "fall" THEN RInt(IF k = 1 THEN 3 ELSE 0)
     ELSE RInt(IF k = 1 THEN 0 - 2 ELSE 3)]

EntryChoices ==
  {[amps |-> (0 :> Shape(a[1], MaxRunSamples) @@ 1 :> Shape(a[2], MaxRunSamples)),
    nsamp |-> (0 :> MaxRunSamples @@ 1 :> k)] :
     a \in {<<"rise", "rise">>, <<"fall", "fall">>, <<"rise", "dip">>},
     k \in 0 .. MaxRunSamples}

InitAnalysis ==
  /\ prevRun = <<>>
  /\ ConverterNotStarted
  /\ DriverNotStarted
  /\ WaveformNotAnalysed
  /\ MonitorNotStarted
  /\ \E n \in 1 .. MaxRunEntries :
       \E pick \in [1 .. n -> EntryChoices], s \in 0 .. (n - 1),
          policy \in {"strict", "pad"} :
         \E e \in (s + 1) .. n :
           InitRun([k \in 1 .. n |-> PaddedEntry(k - 1, pick[k].amps, pick[k].nsamp)],
                   [n_channels |-> 2, policy |-> policy,
                    startEntry |-> s, endEntry |-> e,
                    cfg |-> WaveConfig(2, <<RInt(0 - 100), RInt(300)>>,
                                       <<RInt(0 - 50), RInt(0 - 10)>>,
                                       <<RInt(0), RInt(200)>>, <<RInt(0), RInt(200)>>,
                                       1, <<50>>)])

InitWave ==
  /\ prevRun = <<>>
  /\ ConverterNotStarted
  /\ DriverNotStarted
  /\ RunAnalysisNotStarted
  /\ MonitorNotStarted
  /\ \E n \in 1 .. MaxWaveSamples :
       \E amp \in [1 .. n -> AmpValues], c \in WaveConfigs :
         waveform = [amp |-> amp, time |-> TimeAxis(n), cfg |-> c]
  /\ features = DefaultFeatures
  /\ analysed = FALSE

Analyze ==
  /\ ~analysed
  /\ features' = AnalyzeWaveform(waveform.amp, waveform.time, waveform.cfg, 0)
  /\ analysed' = TRUE
  /\ UNCHANGED waveform

NextWave == Analyze /\ UNCHANGED <<convVars, prevRun, drvVars, runVars, monVars>>

\* ------------------------------------------------------- specifications
InitFrom(S, kinds) ==
  /\ prevRun = <<>>
  /\ DriverNotStarted
  /\ OthersNotStarted
  /\ \E c \in Configs(S) :
       \E lens \in [Chans(c) -> 0 .. MaxRecords] :
         \E D \in DevSets(c.n_channels, lens, kinds) :
           InitConv(c, MkFiles(c.n_channels, lens, D))

BaseSettings ==
  [n_channels |-> {2}, modes |-> {"seq", "par", "ascii"}, max_cores |-> {1, 2},
   event_policy |-> {"error", "warn", "skip"},
   nsamples_policy |-> {"strict"}, chunk_size |-> {1, 2},
   max_events |-> {-1, 1}, enable_special_override |-> BOOLEAN,
   pedestal_window |-> {1}, alloc_throws |-> {FALSE}]

\* Inputs whose records differ in their identity fields only.
InitPolicy == InitFrom(BaseSettings, {"ctr", "board", "chan"})
SpecPolicy == InitPolicy /\ [][NextConv]_vars

\* Inputs of consistent records; the files differ in length only.
InitEof ==
  InitFrom([BaseSettings EXCEPT !.n_channels = {2, 3},
                                !.enable_special_override = {TRUE}], {})
SpecEof == InitEof /\ [][NextConv]_vars

\* Inputs with records of invalid eventSize.
InitStruct ==
  InitFrom([BaseSettings EXCEPT !.enable_special_override = {TRUE},
                                !.nsamples_policy = {"strict", "pad"},
                                !.alloc_throws = BOOLEAN],
           {"badsize", "tiny", "wrap", "trunc"})
SpecStruct == InitStruct /\ [][NextConv]_vars

\* Inputs whose records differ in their sample counts (and event counters).
InitSamples ==
  InitFrom([BaseSettings EXCEPT !.enable_special_override = {TRUE},
                                !.nsamples_policy = {"strict", "pad"},
                                !.pedestal_window = {1, MaxSamples}],
           {"short", "ctr"})
SpecSamples == InitSamples /\ [][NextConv]_vars

\* Well-formed binary inputs, converted sequentially and then in parallel.
InitEquiv ==
  InitFrom([BaseSettings EXCEPT !.modes = {"seq"},
                                !.enable_special_override = {TRUE},
                                !.nsamples_policy = {"strict", "pad"}],
           {"short", "ctr"})
SpecEquiv == InitEquiv /\ [][NextEquiv]_vars

Spec == InitFrom([BaseSettings EXCEPT !.nsamples_policy = {"strict", "pad"}],
                 AllKinds)
        /\ [][NextConv]_vars

\* The parallel path alone, on files of up to MaxRecords + 1 records: a chunk
\* of two records can be followed by a further round.  chunk_size is whatever
\* integer the configuration holds.
NextPar ==
  /\ \/ Main
     \/ ParSpawn
     \/ \E t \in DOMAIN thr : ThreadRead(t)
     \/ ParJoin
     \/ ParMerge
     \/ ParFinish
  /\ UNCHANGED <<prevRun, drvVars, otherVars>>

InitPar ==
  /\ prevRun = <<>>
  /\ DriverNotStarted
  /\ OthersNotStarted
  /\ \E c \in Configs([BaseSettings EXCEPT !.modes = {"par"},
                                           !.n_channels = {2, 3},
                                           !.event_policy = {"error", "warn"},
                                           !.chunk_size = {0 - 1, 0, 1, 2},
                                           !.enable_special_override = {TRUE}]) :
       \E lens \in [Chans(c) -> 0 .. (MaxRecords + 1)] :
         \E D \in DevSets(c.n_channels, lens, {"tiny", "badsize", "trunc"}) :
           InitConv(c, MkFiles(c.n_channels, lens, D))
SpecPar == InitPar /\ [][NextPar]_vars

\* The parallel path with every thread that can take a step taking it.
SpecParFair ==
  /\ InitPar
  /\ [][NextPar]_vars
  /\ WF_convVars(Main \/ ParSpawn \/ ParJoin \/ ParMerge \/ ParFinish)
  /\ \A t \in 0 .. 1 : WF_convVars(ThreadRead(t))

\* Long runs of inconsistent events: enough issues to pass the warning limit.
InitWarn ==
  /\ prevRun = <<>>
  /\ DriverNotStarted
  /\ OthersNotStarted
  /\ \E c \in Configs([BaseSettings EXCEPT !.n_channels = {3, 4},
                                           !.event_policy = {"warn", "skip"},
                                           !.max_events = {-1},
                                           !.enable_special_override = {TRUE}]) :
       \E len \in 1 .. MaxNoisyEvents :
         InitConv(c, NoisyFiles(c.n_channels, len))
SpecWarn == InitWarn /\ [][NextConv]_vars

\* The extraction driver on an input tree of 1 .. MaxEntries entries.
InitExtract ==
  /\ prevRun = <<>>
  /\ ConverterNotStarted
  /\ OthersNotStarted
  /\ \E n \in 1 .. MaxEntries, cs \in {1, 2, MaxEntries}, mc \in {1, 2} :
       InitDriver([NUM_EVENTS |-> n, CHUNK_SIZE |-> cs, MAX_CORES |-> mc])
SpecExtract == InitExtract /\ [][NextDriver]_vars

\* AnalyzeWaveform on malformed input: an empty sample array, or a time axis
\* whose length differs from that of the samples.
InitMalformed ==
  /\ prevRun = <<>>
  /\ ConverterNotStarted
  /\ DriverNotStarted
  /\ RunAnalysisNotStarted
  /\ MonitorNotStarted
  /\ \E n \in 0 .. MaxWaveSamples, t \in 0 .. MaxWaveSamples :
       /\ n = 0 \/ t # n
       /\ \E v \in AmpValues, c \in WaveConfigs :
            waveform = [amp |-> [k \in 1 .. n |-> IF k = 1 THEN v ELSE RInt(3)],
                        time |-> TimeAxis(t), cfg |-> c]
  /\ features = DefaultFeatures
  /\ analysed = FALSE
SpecMalformed == InitMalformed /\ [][NextWave]_vars

\* AnalyzeWaveform with the CFD thresholds 10%, 20%, 30%, 50% on waveforms of
\* four sample levels.
CFDLevels == {RInt(0), RInt(1), RInt(2), RInt(5)}

InitCFD ==
  /\ prevRun = <<>>
  /\ ConverterNotStarted
  /\ DriverNotStarted
  /\ RunAnalysisNotStarted
  /\ MonitorNotStarted
  /\ \E n \in 1 .. MaxWaveSamples :
       \E amp \in [1 .. n -> CFDLevels], c \in WaveConfigs :
         /\ c.charge_thresholds = <<200>>
         /\ c.charge_region_min = <<RInt(0)>>
         /\ waveform = [amp |-> amp, time |-> TimeAxis(n),
                        cfg |-> [c EXCEPT !.cfd_thresholds = <<10, 20, 30, 50>>]]
  /\ features = DefaultFeatures
  /\ analysed = FALSE
SpecCFD == InitCFD /\ [][NextWave]_vars

\* The statistics of the monitor over any sequence of delivered events.
SpecStats == InitStats /\ [][NextStats]_vars

\* AnalyzeWaveform on waveforms of 1 .. MaxWaveSamples samples.
SpecWave == InitWave /\ [][NextWave]_vars

\* RunAnalysis on input trees of 1 .. MaxRunEntries entries.
SpecAnalysis == InitAnalysis /\ [][NextRun]_vars

\* Either file monitor tailing a file of up to MaxMonRecords records.
SpecMonitor == InitMonitor /\ [][NextMonitor]_vars

\* =================================================================== claims
Done == pc = "done"

\* the number of positions at which every channel file holds a record
MinLen == SetMin({Len(files[ch]) : ch \in Chans(cfg)})

\* The spec's consistency rules on the records at position p of the files:
\* equal eventCounter and boardId across channels, channelId equal to the
\* channel's index except on the special override channel.
SpecialIndex(ch) == cfg.enable_special_override /\ cfg.special_channel_index = ch

ViolatesConsistency(p) ==
  \E ch \in Chans(cfg) :
    \/ files[ch][p].eventCounter # files[0][p].eventCounter
    \/ files[ch][p].boardId # files[0][p].boardId
    \/ (files[ch][p].channelId # ch /\ ~SpecialIndex(ch))

\* position p is not cut off by max_events
WithinLimit(p) == cfg.max_events < 0 \/ p <= cfg.max_events

WrittenPositions == {committed[i].src[0] : i \in 1 .. Len(committed)}

\* C1: with event_policy=error, an aligned event that violates consistency
\* aborts the run: failure, and nothing is committed (all three paths).
C1_ErrorPolicyAbortsRun ==
  (Done /\ cfg.event_policy = "error"
   /\ \E p \in 1 .. MinLen : ViolatesConsistency(p) /\ WithinLimit(p))
  => (result = "fail" /\ committed = <<>>)

\* C2: with event_policy=skip, N aligned events of which exactly one violates
\* consistency are converted successfully into exactly the N - 1 others.
ExactlyOneViolation ==
  Cardinality({p \in 1 .. MinLen : ViolatesConsistency(p)}) = 1

C2_SkipWritesAllButOne ==
  (Done /\ cfg.event_policy = "skip" /\ cfg.max_events < 0
   /\ \A ch \in Chans(cfg) : Len(files[ch]) = MinLen
   /\ ExactlyOneViolation)
  => /\ result = "ok"
     /\ Len(committed) = MinLen - 1
     /\ WrittenPositions = {p \in 1 .. MinLen : ~ViolatesConsistency(p)}

\* C5: a record whose channelId differs from its channel's index is handled
\* as a consistency violation per event_policy, on every channel index but
\* the special override one.
ChannelIdMismatch(p) ==
  \E ch \in Chans(cfg) : files[ch][p].channelId # ch /\ ~SpecialIndex(ch)

C5_ChannelIdCheckedOnEveryChannel ==
  (Done /\ \E p \in 1 .. MinLen : ChannelIdMismatch(p) /\ WithinLimit(p))
  => /\ cfg.event_policy = "error" => (result = "fail" /\ committed = <<>>)
     /\ cfg.event_policy = "warn" => log.warn > 0
     /\ cfg.event_policy = "skip" =>
          \A p \in 1 .. MinLen : ChannelIdMismatch(p) => p \notin WrittenPositions

\* The violations the converter's loop over ch >= 1 can see.
ViolatesAboveChannel0(p) ==
  \E ch \in Chans(cfg) : ch >= 1 /\
    \/ files[ch][p].eventCounter # files[0][p].eventCounter
    \/ files[ch][p].boardId # files[0][p].boardId
    \/ (files[ch][p].channelId # ch /\ ~SpecialIndex(ch))

\* C1 holds of all three paths when the violation is not the channelId of
\* channel 0 (the case C5 is about).
ErrorPolicyAbortsOnChannelsAbove0 ==
  (Done /\ cfg.event_policy = "error"
   /\ \E p \in 1 .. MinLen : ViolatesAboveChannel0(p) /\ WithinLimit(p))
  => (result = "fail" /\ committed = <<>>)

\* C2 restricted the same way.
SkipWritesAllButOneAboveChannel0 ==
  (Done /\ cfg.event_policy = "skip" /\ cfg.max_events < 0
   /\ \A ch \in Chans(cfg) : Len(files[ch]) = MinLen
   /\ Cardinality({p \in 1 .. MinLen : ViolatesAboveChannel0(p)}) = 1
   /\ \A p \in 1 .. MinLen : files[0][p].channelId = 0)
  => /\ result = "ok"
     /\ Len(committed) = MinLen - 1
     /\ WrittenPositions = {p \in 1 .. MinLen : ~ViolatesAboveChannel0(p)}

\* C3: when a header read fails on one channel while it succeeds on another,
\* binary ingestion stops at the last fully aligned event: the output holds
\* exactly the aligned events, the run succeeds if there is at least one, and
\* the per-channel EOF status is printed.
HeaderEofMismatch ==
  \E a, b \in Chans(cfg) : Len(files[a]) < Len(files[b])

EofStatusReported ==
  IF Mode(cfg) = "seq"
  THEN \E i \in 1 .. Len(log.status) :
         /\ log.status[i].kind = "eof"
         /\ log.status[i].at = MinLen
         /\ log.status[i].flags = [ch \in Chans(cfg) |-> Len(files[ch]) = MinLen]
  ELSE \E i \in 1 .. Len(log.chunkWarn) :
         \A ch \in Chans(cfg) :
           Len(files[ch]) = MinLen => log.chunkWarn[i].eof[ch]

C3_StopsAtLastAlignedEvent ==
  (Done /\ Mode(cfg) \in {"seq", "par"} /\ HeaderEofMismatch
   /\ (cfg.max_events < 0 \/ cfg.max_events >= MinLen))
  => /\ MinLen >= 1 => result = "ok"
     /\ result = "ok" =>
          /\ Len(committed) = MinLen
          /\ \A i \in 1 .. Len(committed) :
               /\ committed[i].src = [ch \in Chans(cfg) |-> i]
               /\ committed[i].event = i - 1
     /\ EofStatusReported

C3_Witness ==
  /\ Done /\ Mode(cfg) = "par" /\ cfg.chunk_size = 2 /\ HeaderEofMismatch
  /\ MinLen >= 1 /\ result = "ok" /\ Len(committed) = MinLen

\* C4: a record whose payload length is not a multiple of 4 bytes aborts
\* binary ingestion, sequential and parallel: failure and no output.
BadPayloadAt(p) ==
  \E ch \in Chans(cfg) :
    /\ files[ch][p].eventSize > HEADER_BYTES
    /\ (files[ch][p].eventSize - HEADER_BYTES) % SizeofFloat # 0

C4_BadPayloadLengthAbortsRun ==
  (Done /\ Mode(cfg) \in {"seq", "par"}
   /\ \E p \in 1 .. MinLen : BadPayloadAt(p))
  => (result = "fail" /\ committed = <<>>)

\* The sequential path does abort.
BadPayloadLengthAbortsSequentialRun ==
  (Done /\ Mode(cfg) = "seq" /\ \E p \in 1 .. MinLen : BadPayloadAt(p))
  => (result = "fail" /\ committed = <<>>)

\* C6: with nsamples_policy=strict the first aligned event whose channels
\* differ in sample count aborts the run: failure, nothing committed.
SampleCountsDiffer(p) ==
  \E a, b \in Chans(cfg) : Len(files[a][p].samples) # Len(files[b][p].samples)

C6_StrictAbortsOnSampleCountMismatch ==
  (Done /\ cfg.nsamples_policy = "strict"
   /\ \E p \in 1 .. MinLen : SampleCountsDiffer(p) /\ WithinLimit(p))
  => (result = "fail" /\ committed = <<>>)

C6_Witness ==
  /\ Done /\ cfg.nsamples_policy = "strict" /\ MinLen >= 2
  /\ ~SampleCountsDiffer(1) /\ SampleCountsDiffer(2)
  /\ Len(tree) = 1 /\ result = "fail" /\ committed = <<>>

\* C7: with nsamples_policy=pad every written event has a time axis as long
\* as its longest channel, corrected arrays of that length, and the pedestal
\* target in every padded sample.
PadShape(e) ==
  /\ e.time_len = SetMax({e.nsamples_per_channel[ch] : ch \in Chans(cfg)})
  /\ \A ch \in Chans(cfg) :
       /\ Len(e.ped[ch]) = e.time_len
       /\ \A i \in (e.nsamples_per_channel[ch] + 1) .. e.time_len :
            e.ped[ch][i] = cfg.ped_target

C7_PadInvariant ==
  cfg.nsamples_policy = "pad" => \A i \in 1 .. Len(tree) : PadShape(tree[i])

C7_Witness ==
  /\ cfg.nsamples_policy = "pad" /\ result = "ok"
  /\ \E i \in 1 .. Len(committed) :
       /\ committed[i].nsamples_per_channel[0] = MaxSamples
       /\ committed[i].nsamples_per_channel[1] = MaxSamples - 1
       /\ committed[i].ped[1][MaxSamples] = cfg.ped_target

\* C8: on the same well-formed binary input and settings the parallel run
\* writes the same sequence of events as the sequential run.
C8_ParallelEqualsSequential ==
  (Done /\ prevRun # <<>>) => committed = prevRun[1].committed

\* The two divergences, separately: the event limit (max_events >= 0) is
\* applied per chunk by the parallel path and not at all by the sequential
\* one; under skip the sequential event index keeps the gaps of the skipped
\* events and the parallel one does not.
AllRecordsGood ==
  \A ch \in Chans(cfg) : \A p \in 1 .. Len(files[ch]) :
    files[ch][p] = GoodRec(ch, p - 1)

ParallelEqualsSequentialOnCleanInput ==
  (Done /\ prevRun # <<>> /\ AllRecordsGood) => committed = prevRun[1].committed

ParallelEqualsSequentialWithoutLimit ==
  (Done /\ prevRun # <<>> /\ cfg.max_events < 0)
  => committed = prevRun[1].committed

ParallelEqualsSequentialWithoutLimitOrSkip ==
  (Done /\ prevRun # <<>> /\ cfg.max_events < 0 /\ cfg.event_policy # "skip")
  => (committed = prevRun[1].committed /\ result = prevRun[1].result)

\* C9: the merged extraction output holds the entries of the chunks in
\* increasing event-index order, for any number of chunks.
MergedWritten == dpc = "exit" /\ merged.exists

C9_MergedInIncreasingEventOrder ==
  MergedWritten =>
    \A i \in 1 .. Len(merged.entries) - 1 :
      merged.entries[i] < merged.entries[i + 1]

\* With at most ten chunks the order is the event order.
MergedInOrderUpToTenChunks ==
  (MergedWritten /\ NUM_CHUNKS(opts) <= 10) =>
    merged.entries = [i \in 1 .. opts.NUM_EVENTS |-> i - 1]

\* C10: when a chunk worker exits non-zero the driver exits non-zero and no
\* merged output is produced.
WorkerFailed(c) ==
  \/ worker[c].rc # 0
  \/ worker[c].st = "exited" /\ worker[c].status # 0

C10_WorkerFailureFailsDriver ==
  (\E c \in DOMAIN worker : WorkerFailed(c))
  => /\ ~merged.exists
     /\ dpc = "exit" => exitStatus # 0

C10_Witness ==
  /\ dpc = "exit" /\ exitStatus # 0 /\ ~merged.exists
  /\ \E c, d \in DOMAIN worker :
       /\ WorkerFailed(c) /\ outRoot[c].exists
       /\ tempDir[d].exists

\* C12: in parallel ingestion every chunk round assembles as many events as
\* the minimum number of records read across the channels in that round, the
\* records beyond the minimum are not carried into the next round, and a
\* warning with the per-channel counts is printed whenever the counts differ.
RoundMinimum(r) == SetMin({r.counts[ch] : ch \in Chans(cfg)})

RoundWarnedWithCounts(k) ==
  \E i \in 1 .. Len(log.chunkWarn) :
    /\ log.chunkWarn[i].chunk = k - 1
    /\ log.chunkWarn[i].counts = log.rounds[k].counts

\* every written event is made of the i-th records of one round, i within
\* that round's minimum
EventsWithinRoundMinimum ==
  \A j \in 1 .. Len(tree) :
    \E k \in 1 .. Len(log.rounds) :
      \E i \in 1 .. RoundMinimum(log.rounds[k]) :
        \A ch \in Chans(cfg) : tree[j].src[ch] = log.rounds[k].ats[ch][i]

C12_RoundAssemblesMinimum ==
  Mode(cfg) = "par" =>
    /\ \A k \in 1 .. Len(log.rounds) :
         LET r == log.rounds[k]
         IN /\ ~r.aborted => r.taken = RoundMinimum(r)
            /\ (\E a, b \in Chans(cfg) : r.counts[a] # r.counts[b])
                 => (r.warned /\ RoundWarnedWithCounts(k))
    /\ EventsWithinRoundMinimum

\* Without an event limit the rounds do assemble the minimum.
RoundAssemblesMinimumWithoutLimit ==
  (Mode(cfg) = "par" /\ cfg.max_events < 0) =>
    \A k \in 1 .. Len(log.rounds) :
      LET r == log.rounds[k]
      IN /\ ~r.aborted => r.taken = RoundMinimum(r)
         /\ (\E a, b \in Chans(cfg) : r.counts[a] # r.counts[b])
              => (r.warned /\ RoundWarnedWithCounts(k))
         /\ EventsWithinRoundMinimum

\* C13: in parallel ingestion the merge of a chunk round never runs while a
\* reader thread of that round is still running: whenever the main thread is
\* at the merge (or past the chunk loop), every reader thread has been joined.
RunningThreads == {t \in DOMAIN thr : thr[t].st = "running"}

C13_MergeAfterJoin ==
  (Mode(cfg) = "par" /\ pc \in {"par_merge", "par_end", "done"})
  => RunningThreads = {}

C13_Witness ==
  /\ pc = "par_merge" /\ cfg.n_channels = 3 /\ MaxThreads(cfg) = 2
  /\ RunningThreads = {}
  /\ \A ch \in Chans(cfg) : readCount[ch] = 1 /\ Len(chunkData[ch]) >= 1

\* C14: during parallel ingestion no two threads work on the same channel's
\* file handle, chunk buffer or EOF flag: a channel has at most one running
\* reader, every channel is read by exactly one thread per round, and the
\* step of a reader thread changes only its own channel's state.
Owners(ch) == {t \in RunningThreads : thr[t].chIdx = ch}

OneReaderPerChannel ==
  Mode(cfg) = "par" =>
    /\ \A ch \in Chans(cfg) : Cardinality(Owners(ch)) <= 1 /\ readCount[ch] <= 1
    /\ pc = "par_merge" => \A ch \in Chans(cfg) : readCount[ch] = 1

ThreadTouchesOwnChannelOnly ==
  \A t \in DOMAIN thr :
    ThreadRead(t) =>
      \A ch \in Chans(cfg) \ {thr[t].chIdx} :
        /\ fpos'[ch] = fpos[ch]
        /\ channelEof'[ch] = channelEof[ch]
        /\ chunkData'[ch] = chunkData[ch]

C14_ExclusiveChannelState ==
  [](OneReaderPerChannel) /\ [][ThreadTouchesOwnChannelOnly]_vars

C14_Witness ==
  \E t, u \in RunningThreads : thr[t].chIdx # thr[u].chIdx

\* C16: with event_policy=warn a run prints at most kConsistencyWarnLimit
\* consistency warnings, then one "further warnings suppressed" notice, and
\* no consistency warning after it; on the sequential, parallel and ASCII path.
WarningsRateLimited ==
  /\ log.warn <= kConsistencyWarnLimit
  /\ log.suppressed = (IF log.warn = kConsistencyWarnLimit THEN 1 ELSE 0)

C16_WarningsRateLimited ==
  cfg.event_policy = "warn" => WarningsRateLimited

\* The binary paths do limit their warnings.
BinaryWarningsRateLimited ==
  (cfg.event_policy = "warn" /\ Mode(cfg) \in {"seq", "par"})
  => WarningsRateLimited

\* a binary run that passed the limit
BinaryRunPassedWarnLimit ==
  /\ Done /\ cfg.event_policy = "warn" /\ Mode(cfg) = "par"
  /\ log.warn = kConsistencyWarnLimit /\ log.suppressed = 1
  /\ Len(committed) * 2 * (cfg.n_channels - 1) > kConsistencyWarnLimit


\* ---- waveform windows and timing sentinels
AmpCorr == ApplyBaselineAndPolarity(waveform.amp, features.baseline,
                                    At(waveform.cfg.signal_polarity, 0))

\* the end index as the last index whose time is <= region_max
LastTimeIndexAtMost(time, threshold) ==
  LET hits == {i \in 0 .. (Len(time) - 1) : RLe(At(time, i), threshold)}
  IN  IF hits = {} THEN Len(time) - 1 ELSE SetMax(hits)

\* the window as stated: first index >= region_min, last index <= region_max,
\* clipped to the analysis window and to the array
StatedWindow(time, region_min, region_max, aw) ==
  LET nSamples == Len(time)
      start == MaxInt(0, MinInt(MaxInt(FindTimeIndex(time, region_min), aw.start),
                                nSamples - 1))
      end   == MaxInt(start, MinInt(MinInt(LastTimeIndexAtMost(time, region_max),
                                           aw.end), nSamples - 1))
  IN  WindowIndices(start, end)

WindowInBounds(w) ==
  0 <= w.start /\ w.start <= w.end /\ w.end <= Len(waveform.time) - 1

TheAnalysisWindow ==
  AnalysisWindow(waveform.time, At(waveform.cfg.analysis_region_min, 0),
                 At(waveform.cfg.analysis_region_max, 0))

\* some sample is at or after region_min and some at or before region_max
Resolvable(time, region_min, region_max) ==
  /\ \E i \in 0 .. (Len(time) - 1) : RLe(region_min, At(time, i))
  /\ \E i \in 0 .. (Len(time) - 1) : RLe(At(time, i), region_max)

WindowAsStated(w, region_min, region_max) ==
  /\ Resolvable(waveform.time, region_min, region_max)
       => w = StatedWindow(waveform.time, region_min, region_max, TheAnalysisWindow)
  /\ WindowInBounds(w)

\* C20: each of the baseline, signal and charge windows is [start, end] with
\* start the first index whose time is >= window-min and end the last index
\* whose time is <= window-max, clipped to the analysis window and the array,
\* and 0 <= start <= end <= nSamples - 1.
C20_WindowsAsStated ==
  analysed =>
    LET c == waveform.cfg
    IN  /\ WindowAsStated(features.baseline_window, At(c.baseline_region_min, 0),
                          At(c.baseline_region_max, 0))
        /\ WindowAsStated(features.signal_window, At(c.signal_region_min, 0),
                          At(c.signal_region_max, 0))
        /\ WindowAsStated(features.charge_window, At(c.charge_region_min, 0),
                          At(c.charge_region_max, 0))

\* The part of C20 the code does keep: every window is within the array and
\* not inverted.
WindowsWithinArray ==
  analysed => /\ WindowInBounds(features.baseline_window)
              /\ WindowInBounds(features.signal_window)
              /\ WindowInBounds(features.charge_window)

\* C18: a charge-fraction threshold of 200% leaves its timeCharge entry at the
\* 10.0 default, for any waveform and any charge window.
C18_UnreachableFractionKeepsDefault ==
  analysed =>
    \A k \in DOMAIN waveform.cfg.charge_thresholds :
      waveform.cfg.charge_thresholds[k] = 200
        => features.timeCharge[k] = Sentinels.timeCharge

\* The part of C18 that holds: with no negative corrected sample in the
\* charge window the 200% entry keeps its default.
ChargeWindowNonNegative ==
  \A i \in features.charge_window.start .. features.charge_window.end :
    RLe(RInt(0), At(AmpCorr, i))

NonNegativeChargeKeepsDefault ==
  (analysed /\ ChargeWindowNonNegative) =>
    \A k \in DOMAIN waveform.cfg.charge_thresholds :
      waveform.cfg.charge_thresholds[k] = 200
        => features.timeCharge[k] = Sentinels.timeCharge

\* A sample below the threshold followed by one at or above it, between the
\* start of the signal window (exclusive) and the peak.
RisingCrossing(threshold) ==
  \E i \in (MaxInt(0, features.signal_window.start) + 1) .. (features.posampmax - 1) :
    RLt(At(AmpCorr, i), threshold) /\ RLe(threshold, At(AmpCorr, i + 1))

\* A sample below the threshold from the peak on and before the end of the
\* charge window.
FallingCrossing(threshold) ==
  \E i \in MaxInt(1, features.posampmax) ..
           (MinInt(features.charge_window.end, Len(AmpCorr) - 1) - 1) :
    RLt(At(AmpCorr, i), threshold)

CFDThreshold(b) ==
  RDiv(RMul(features.ampMax, RInt(waveform.cfg.cfd_thresholds[b])), RInt(100))
LEThreshold(b) == RDiv(waveform.cfg.le_thresholds[b], RInt(1000))

\* C19: a timing threshold with no crossing keeps its sentinel: timeCFD and
\* jitterCFD 0.0; timeLE 20.0, jitterLE and totLE -5.0 when ampMax does not
\* exceed the threshold or there is no leading edge; totLE -5.0 when there is a
\* leading edge but no trailing edge before the end of the charge window.
C19_UncrossedKeepSentinels ==
  analysed =>
    /\ \A b \in DOMAIN waveform.cfg.cfd_thresholds :
         ~RisingCrossing(CFDThreshold(b))
           => /\ features.timeCFD[b] = Sentinels.timeCFD
              /\ features.jitterCFD[b] = Sentinels.jitterCFD
    /\ \A b \in DOMAIN waveform.cfg.le_thresholds :
         /\ (RLe(features.ampMax, LEThreshold(b)) \/ ~RisingCrossing(LEThreshold(b)))
              => /\ features.timeLE[b] = Sentinels.timeLE
                 /\ features.jitterLE[b] = Sentinels.jitterLE
                 /\ features.totLE[b] = Sentinels.totLE
         /\ ~FallingCrossing(LEThreshold(b))
              => features.totLE[b] = Sentinels.totLE

\* a waveform with a threshold above ampMax, one whose leading edge is found
\* with no trailing edge, and an un-crossed CFD threshold
C19_Witness ==
  /\ analysed
  /\ \E b \in DOMAIN waveform.cfg.le_thresholds :
       RLe(features.ampMax, LEThreshold(b)) /\ features.timeLE[b] = Sentinels.timeLE
  /\ \E b \in DOMAIN waveform.cfg.le_thresholds :
       /\ RLt(LEThreshold(b), features.ampMax)
       /\ RisingCrossing(LEThreshold(b))
       /\ ~FallingCrossing(LEThreshold(b))
       /\ features.timeLE[b] # Sentinels.timeLE
       /\ features.totLE[b] = Sentinels.totLE
  /\ \E b \in DOMAIN waveform.cfg.cfd_thresholds :
       /\ RLt(RInt(0), features.ampMax)
       /\ ~RisingCrossing(CFDThreshold(b))
       /\ features.timeCFD[b] = Sentinels.timeCFD

\* the sentinels are not all there is: some leading edge is timed
LeadingEdgeTimed ==
  analysed /\ \E b \in DOMAIN waveform.cfg.le_thresholds :
                RisingCrossing(LEThreshold(b)) /\ FallingCrossing(LEThreshold(b))
                /\ features.totLE[b] # Sentinels.totLE


\* ---- the driver's sub-ranges
Dispatched == {c \in DOMAIN worker : worker[c].st # "none"}
SubRange(c) == worker[c].start .. (worker[c].end - 1)
CeilDiv(n, k) == CHOOSE q \in 0 .. n : q * k >= n /\ (q - 1) * k < n
DispatchLoopOver == dpc # "off" /\ START >= opts.NUM_EVENTS

\* C15: the driver splits [0, totalEvents) into ceil(totalEvents / chunkSize)
\* sub-ranges of chunkSize events, the last clipped to totalEvents; they are
\* pairwise disjoint and cover [0, totalEvents); one worker is dispatched per
\* sub-range, chunk ids increasing with START; each worker's output holds
\* exactly the entries of its sub-range.
C15_SubRangesPartitionEvents ==
  dpc # "off" =>
    /\ Dispatched = 0 .. (CHUNK_ID - 1)
    /\ \A c \in Dispatched :
         /\ worker[c].start = c * opts.CHUNK_SIZE
         /\ worker[c].end = MinInt(worker[c].start + opts.CHUNK_SIZE, opts.NUM_EVENTS)
         /\ worker[c].start < worker[c].end
    /\ \A c, d \in Dispatched :
         /\ c # d => SubRange(c) \cap SubRange(d) = {}
         /\ c < d => worker[c].start < worker[d].start
    /\ UNION {SubRange(c) : c \in Dispatched}
         = 0 .. (MinInt(START, opts.NUM_EVENTS) - 1)
    /\ DispatchLoopOver =>
         /\ Cardinality(Dispatched) = CeilDiv(opts.NUM_EVENTS, opts.CHUNK_SIZE)
         /\ UNION {SubRange(c) : c \in Dispatched} = 0 .. (opts.NUM_EVENTS - 1)
    /\ \A c \in Dispatched :
         /\ (worker[c].st # "analyze" /\ worker[c].rc = 0 /\ outRoot[c].exists)
              => outRoot[c].entries
                   = [i \in 1 .. Cardinality(SubRange(c)) |-> worker[c].start + i - 1]
         /\ tempDir[c].exists
              => tempDir[c].entries
                   = [i \in 1 .. Cardinality(SubRange(c)) |-> worker[c].start + i - 1]

\* all chunks dispatched and analysed, with a clipped last sub-range
C15_Witness ==
  /\ DispatchLoopOver
  /\ NUM_CHUNKS(opts) >= 3
  /\ opts.NUM_EVENTS % opts.CHUNK_SIZE # 0
  /\ \A c \in ChunkIds(opts) : tempDir[c].exists /\ tempDir[c].entries # <<>>


\* ---- the extraction loop
RunRange == (runOpts.startEntry + 1) .. runOpts.endEntry

\* the feature set of channel ch computed from the samples of entry e alone
OwnFeatures(e, ch) ==
  IF EffectiveSamples(e, ch) > 0
  THEN AnalyzeWaveform(Trimmed(e.chPed[ch], EffectiveSamples(e, ch)),
                       Trimmed(e.time_ns, EffectiveSamples(e, ch)),
                       runOpts.cfg, ch)
  ELSE InitialBranch(runOpts.cfg)

EntriesFromOwnSamples ==
  /\ Len(outputTree) = iEntry
  /\ runPc = "ok" => Len(outputTree) = runOpts.endEntry - runOpts.startEntry
  /\ \A k \in 1 .. Len(outputTree) :
       LET e == inputTree[runOpts.startEntry + k]
       IN  /\ outputTree[k].event = e.event
           /\ \A ch \in 0 .. (runOpts.n_channels - 1) :
                outputTree[k].features[ch] = OwnFeatures(e, ch)

\* C11: the extraction writes one output entry per input event of
\* [START, END), in event-index order, each holding per channel the features
\* computed from that event's own samples, never values of an earlier event.
C11_OneEntryPerEventFromOwnSamples ==
  runPc \in {"loop", "ok"} => EntriesFromOwnSamples

\* The part of C11 that holds: input trees in which every channel of every
\* entry of the range has samples.
EveryChannelSampled ==
  \A k \in RunRange : \A ch \in 0 .. (runOpts.n_channels - 1) :
    EffectiveSamples(inputTree[k], ch) > 0

SampledEntriesFromOwnSamples ==
  (runPc \in {"loop", "ok"} /\ EveryChannelSampled) => EntriesFromOwnSamples

\* a finished run over a sub-range of several sampled entries
SampledRunFinished ==
  /\ runPc = "ok" /\ EveryChannelSampled
  /\ runOpts.startEntry > 0 /\ Len(outputTree) >= 2


\* ---- live tailing
CompleteRecords == monFile \div 4

DeliveredCompleteInOrder ==
  /\ Len(delivered) <= CompleteRecords
  /\ \A k \in 1 .. Len(delivered) :
       delivered[k] = [event |-> k - 1, complete |-> TRUE]
  /\ mon.pc = "sleep" => mon.last_position = RecordStart(Len(delivered))

\* C17: a header or payload cut short by the end of the file is absorbed: the
\* reader rewinds to the start of the record without advancing its committed
\* position, so that the events delivered are the complete records of the
\* file, each once and in file order.
C17_TruncatedReadsAbsorbed == mon # <<>> => DeliveredCompleteInOrder

\* The part of C17 that holds: BinaryFileMonitor.
BinaryMonitorAbsorbsTruncatedReads ==
  (mon # <<>> /\ mon.kind = "BinaryFileMonitor") => DeliveredCompleteInOrder

\* a record delivered by BinaryFileMonitor after a poll that found it cut short
BinaryMonitorDeliveredAll ==
  /\ mon # <<>> /\ mon.kind = "BinaryFileMonitor"
  /\ Len(delivered) = MaxMonRecords

\* BinaryFileMonitor under polls that keep coming: every record the file
\* holds complete is eventually delivered.
SpecBinaryMonitorFair ==
  /\ InitMonitor /\ mon.kind = "BinaryFileMonitor"
  /\ [][NextMonitor]_vars
  /\ WF_monVars(BinaryCheckNewData) /\ WF_monVars(BinaryReadNextEvent)

CompleteRecordsEventuallyDelivered ==
  \A k \in 1 .. MaxMonRecords :
    (monFile >= RecordStart(k)) ~> (Len(delivered) >= k)

\* FileMonitor after a payload cut short: its committed position is -1 and no
\* later poll reads anything.
FileMonitorStuck ==
  /\ mon # <<>> /\ mon.kind = "FileMonitor"
  /\ mon.pc = "sleep" /\ mon.last_position = 0 - 1
  /\ CompleteRecords > Len(delivered)

\* ---------------------------------------------------------------- C21
\* the corrected waveform and the searches of the analysed waveform
AnalysedAmpCorr ==
  ApplyBaselineAndPolarity(waveform.amp, features.baseline,
                           At(waveform.cfg.signal_polarity, 0))

AnalysedBackward(threshold) ==
  FindThresholdCrossingBackward(AnalysedAmpCorr, waveform.time, features.posampmax,
                                features.signal_window.start, threshold,
                                features.rms2)

AnalysedForward(threshold) ==
  FindTrailingEdgeForward(AnalysedAmpCorr, waveform.time, features.posampmax,
                          features.charge_window.end, threshold)

\* a backward or forward search that finds nothing leaves the output at the
\* value it was initialised with
FailedSearchesLeaveSentinels ==
  /\ \A b \in 1 .. Len(waveform.cfg.cfd_thresholds) :
       ~AnalysedBackward(CFDThreshold(b)).found
         => /\ features.timeCFD[b] = Sentinels.timeCFD
            /\ features.jitterCFD[b] = Sentinels.jitterCFD
  /\ \A b \in 1 .. Len(waveform.cfg.le_thresholds) :
       /\ ~AnalysedBackward(LEThreshold(b)).found
            => /\ features.timeLE[b] = Sentinels.timeLE
               /\ features.jitterLE[b] = Sentinels.jitterLE
               /\ features.totLE[b] = Sentinels.totLE
       /\ ~AnalysedForward(LEThreshold(b)).found
            => features.totLE[b] = Sentinels.totLE

\* C21: for a non-empty waveform with a time axis of the same length and any
\* window configuration, every index of the arrays that the analysis reads
\* lies in [0, nSamples - 1], and a search that fails leaves the sentinel.
C21_EveryIndexReadInRange ==
  (analysed /\ Len(waveform.amp) > 0 /\ Len(waveform.time) = Len(waveform.amp))
    => /\ IndicesRead(waveform.amp, waveform.time, waveform.cfg, 0, features)
            \subseteq 0 .. (Len(waveform.amp) - 1)
       /\ FailedSearchesLeaveSentinels

\* a signal window wholly after the time axis, resolved to the last sample,
\* with the baseline window starting at the first sample and a failed search
C21_Witness ==
  /\ analysed
  /\ Len(waveform.amp) > 1
  /\ RLt(At(waveform.time, Len(waveform.time) - 1),
         At(waveform.cfg.signal_region_min, 0))
  /\ features.posampmax = Len(waveform.amp) - 1
  /\ features.baseline_window.start = 0
  /\ \E b \in 1 .. Len(waveform.cfg.cfd_thresholds) :
       ~AnalysedBackward(CFDThreshold(b)).found

\* an inverted signal window with the peak at the first sample it resolves to
InvertedWindowAnalysed ==
  /\ analysed
  /\ Len(waveform.amp) > 3
  /\ RLt(At(waveform.cfg.signal_region_max, 0), At(waveform.cfg.signal_region_min, 0))
  /\ RLe(At(waveform.cfg.signal_region_min, 0),
         At(waveform.time, Len(waveform.time) - 1))
  /\ features.posampmax = features.signal_window.start

\* the peak at the first sample of the waveform, the charge fraction crossed
\* at sample 0 where no earlier sample exists
PeakAtFirstSample ==
  /\ analysed
  /\ Len(waveform.amp) > 1
  /\ features.posampmax = 0
  /\ RLt(RInt(0), features.ampMax)
  /\ features.charge_window.start = 0
  /\ RLt(features.charge, RInt(0))

\* ---------------------------------------------------------------- C22
MalformedInput ==
  Len(waveform.amp) = 0 \/ Len(waveform.time) # Len(waveform.amp)

\* C22: for an empty sample array, or one whose length differs from the time
\* axis, the extractor returns the default-initialised features (every scalar
\* 0, hasSignal false, no timing entries) and reads no sample.
C22_MalformedInputGivesDefaults ==
  (analysed /\ MalformedInput)
    => /\ \A fld \in {"baseline", "rms2", "noise1Point", "ampMinBefore",
                      "ampMaxBefore", "ampMax", "charge", "peakTime",
                      "riseTime", "slewRate"} : features[fld] = RInt(0)
       /\ features.signalOverNoise = Root(FALSE, RInt(0))
       /\ features.hasSignal = FALSE
       /\ \A fld \in {"timeCFD", "jitterCFD", "timeLE", "jitterLE", "totLE",
                      "timeCharge"} : features[fld] = <<>>
       /\ IndicesRead(waveform.amp, waveform.time, waveform.cfg, 0, features) = {}

\* samples present, the time axis one element longer
C22_Witness ==
  /\ analysed
  /\ Len(waveform.amp) > 1
  /\ Len(waveform.time) = Len(waveform.amp) + 1

\* no samples at all, with a time axis
EmptySamplesAnalysed ==
  analysed /\ waveform.amp = <<>> /\ Len(waveform.time) > 0

\* ---------------------------------------------------------------- C23
\* the corrected amplitude does not fall from the start of the signal window
\* to the peak
RisesToPeak ==
  \A i \in features.signal_window.start .. (features.posampmax - 1) :
    RLe(At(AnalysedAmpCorr, i), At(AnalysedAmpCorr, i + 1))

\* C23: on a waveform that rises monotonically from the start of the signal
\* window to the peak, the CFD crossing times of thresholds that are
\* increasing fractions of the same peak are non-decreasing.
C23_CFDTimesNonDecreasing ==
  (analysed /\ Len(waveform.amp) > 0 /\ RisesToPeak)
    => \A a, b \in DOMAIN features.timeCFD :
         (waveform.cfg.cfd_thresholds[a] < waveform.cfg.cfd_thresholds[b])
           => RLe(features.timeCFD[a], features.timeCFD[b])

\* a rising edge on which all four thresholds are crossed, at times that differ
C23_Witness ==
  /\ analysed
  /\ Len(features.timeCFD) = 4
  /\ RisesToPeak
  /\ features.posampmax > features.signal_window.start + 1
  /\ \A b \in 1 .. 4 : AnalysedBackward(CFDThreshold(b)).found
  /\ RLt(features.timeCFD[1], features.timeCFD[2])
  /\ RLt(features.timeCFD[3], features.timeCFD[4])

\* the lower thresholds uncrossed (sentinel 0.0), the higher ones crossed
LowThresholdsUncrossed ==
  /\ analysed
  /\ Len(features.timeCFD) = 4
  /\ RisesToPeak
  /\ ~AnalysedBackward(CFDThreshold(1)).found
  /\ AnalysedBackward(CFDThreshold(4)).found

\* ---------------------------------------------------------------- C24
\* the pedestal window clamped to the n samples of a channel
ClampedWindow(n) == MinInt(n, MaxInt(1, cfg.pedestal_window))

\* the pedestal of channel ch is the mean of the first samples of its raw
\* branch: pedestal * count = their sum; it is a number when there is no sample
PedestalIsMean(e, ch) ==
  LET w == ClampedWindow(e.nsamples_per_channel[ch])
  IN  /\ e.pedestals[ch] # NaN
      /\ w > 0 => e.pedestals[ch] * w = SumSeq(SubSeq(e.raw[ch], 1, w))

CorrectedInRange(e, ch) ==
  \A i \in 1 .. e.nsamples_per_channel[ch] :
    e.ped[ch][i] = e.raw[ch][i] - e.pedestals[ch] + cfg.ped_target

\* the mean of the first pedestal-window corrected samples is the target
CorrectedMeanIsTarget(e, ch) ==
  LET w == ClampedWindow(Len(e.ped[ch]))
  IN  SumSeq(SubSeq(e.ped[ch], 1, w)) = w * cfg.ped_target

\* C24: for every channel of every written event the pedestal is the mean of
\* the first pedestal_window raw samples (clamped to the samples available),
\* every in-range corrected sample is raw - pedestal + target, and the mean of
\* the corrected samples of the pedestal window is the target.
C24_PedestalIsMeanOfWindow ==
  \A k \in 1 .. Len(tree) : \A ch \in Chans(cfg) :
    /\ PedestalIsMean(tree[k], ch)
    /\ CorrectedInRange(tree[k], ch)
    /\ CorrectedMeanIsTarget(tree[k], ch)

\* The part of C24 that holds: channels with at least one sample.
PedestalIsMeanWhereSampled ==
  \A k \in 1 .. Len(tree) : \A ch \in Chans(cfg) :
    tree[k].nsamples_per_channel[ch] > 0
      => /\ PedestalIsMean(tree[k], ch)
         /\ CorrectedInRange(tree[k], ch)
         /\ CorrectedMeanIsTarget(tree[k], ch)

\* and the corrected samples, which never depend on an undefined pedestal
CorrectedAsStated ==
  \A k \in 1 .. Len(tree) : \A ch \in Chans(cfg) :
    CorrectedInRange(tree[k], ch) /\ CorrectedMeanIsTarget(tree[k], ch)

\* a written channel whose pedestal window was clamped to fewer samples
ClampedPedestalWritten ==
  \E k \in 1 .. Len(tree) : \E ch \in Chans(cfg) :
    /\ cfg.pedestal_window > tree[k].nsamples_per_channel[ch]
    /\ tree[k].nsamples_per_channel[ch] > 0
    /\ Len(tree[k].ped[ch]) > tree[k].nsamples_per_channel[ch]

\* a written channel without a sample
EmptyChannelWritten ==
  \E k \in 1 .. Len(tree) : \E ch \in Chans(cfg) :
    tree[k].nsamples_per_channel[ch] = 0

\* ---------------------------------------------------------------- C25
\* C25: in parallel ingestion the k-th assembled event uses the k-th record of
\* every channel, over all chunk rounds.
C25_KthEventUsesKthRecords ==
  Mode(cfg) = "par" =>
    \A k \in 1 .. Len(tree) : \A ch \in Chans(cfg) : tree[k].src[ch] = k

\* every record of every file has a payload of whole samples
AllRecordsStructurallyValid ==
  \A ch \in Chans(cfg) : \A p \in 1 .. Len(files[ch]) :
    /\ files[ch][p].eventSize > HEADER_BYTES
    /\ (files[ch][p].eventSize - HEADER_BYTES) % SizeofFloat = 0

\* The part of C25 that holds: without an event limit, on files without an
\* invalid record.
AlignedWithoutLimit ==
  (Mode(cfg) = "par" /\ cfg.max_events < 0 /\ AllRecordsStructurallyValid)
    => \A k \in 1 .. Len(tree) : \A ch \in Chans(cfg) : tree[k].src[ch] = k

\* with or without a limit, every event is made of records of one position
EventRecordsOfOnePosition ==
  Mode(cfg) = "par" =>
    \A k \in 1 .. Len(tree) : \A a, b \in Chans(cfg) :
      tree[k].src[a] = tree[k].src[b]

\* a second round that assembled the event of the last records
SecondRoundAssembled ==
  /\ Mode(cfg) = "par" /\ cfg.max_events < 0 /\ AllRecordsStructurallyValid
  /\ Len(log.rounds) >= 2
  /\ log.rounds[2].taken > 0
  /\ Len(tree) = MaxRecords + 1

\* ---------------------------------------------------------------- C26
\* the record of channel ch that the entry e was filled from
RecordOf(e, ch) == files[ch][e.src[ch]]

\* C26: a record whose payload is cut short by the end of the file is never
\* emitted as an event, in sequential or in parallel mode: every sample of a
\* written event was read from the file.
C26_TruncatedRecordNeverWritten ==
  Mode(cfg) \in {"seq", "par"} =>
    \A k \in 1 .. Len(tree) : \A ch \in Chans(cfg) :
      RecordOf(tree[k], ch).avail >= tree[k].nsamples_per_channel[ch]

\* The part of C26 that holds: the sequential path.
SequentialNeverWritesTruncated ==
  Mode(cfg) = "seq" =>
    \A k \in 1 .. Len(tree) : \A ch \in Chans(cfg) :
      RecordOf(tree[k], ch).avail >= tree[k].nsamples_per_channel[ch]

\* a sequential run stopped by a payload cut short, after a written event
SequentialStoppedAtTruncated ==
  /\ Mode(cfg) = "seq" /\ Done /\ result = "ok"
  /\ Len(committed) = 1
  /\ \E ch \in Chans(cfg) :
       /\ Len(files[ch]) = 2
       /\ files[ch][2].avail < Len(files[ch][2].samples)

\* a committed event of the parallel path with a sample that was not read
ParallelWroteUnreadSample ==
  /\ Mode(cfg) = "par" /\ Done /\ result = "ok"
  /\ \E k \in 1 .. Len(committed) : \E ch \in Chans(cfg) :
       /\ RecordOf(committed[k], ch).avail < committed[k].nsamples_per_channel[ch]
       /\ committed[k].raw[ch][committed[k].nsamples_per_channel[ch]] = 0

\* ---------------------------------------------------------------- C27
\* the record at position p of channel ch announces no payload at all
HeaderOnly(ch, p) == files[ch][p].eventSize <= HEADER_BYTES

\* the aligned positions at which some channel holds such a record
HeaderOnlyPositions ==
  {p \in 1 .. MinLen : \E ch \in Chans(cfg) : HeaderOnly(ch, p)}

\* C27: in binary ingestion a record whose eventSize does not exceed the
\* 32-byte header is a structural error that aborts the run, on any channel,
\* and is never turned into an event.
C27_HeaderOnlyRecordAbortsRun ==
  Mode(cfg) \in {"seq", "par"} =>
    /\ \A k \in 1 .. Len(tree) : \A ch \in Chans(cfg) :
         ~HeaderOnly(ch, tree[k].src[ch])
    /\ (Done /\ HeaderOnlyPositions # {}) => (result = "fail" /\ committed = <<>>)

\* The parts of C27 that hold: the parallel path never makes an event of such
\* a record, and the sequential path aborts when it is on channel 0.
ParallelNeverWritesHeaderOnly ==
  Mode(cfg) = "par" =>
    \A k \in 1 .. Len(tree) : \A ch \in Chans(cfg) :
      ~HeaderOnly(ch, tree[k].src[ch])

SequentialAbortsOnChannel0 ==
  (Mode(cfg) = "seq" /\ Done /\ \E p \in 1 .. MinLen : HeaderOnly(0, p))
    => (result = "fail" /\ committed = <<>>)

\* a committed event of the sequential path made of a bare header
HeaderOnlyRecordWritten ==
  /\ Mode(cfg) = "seq" /\ Done /\ result = "ok"
  /\ \E k \in 1 .. Len(committed) : \E ch \in Chans(cfg) :
       /\ HeaderOnly(ch, committed[k].src[ch])
       /\ committed[k].nsamples_per_channel[ch] = 0

\* a sequential run that took the wrapped payload size of a record with
\* eventSize 0 for a payload cut short, and ended in success
WrappedSizeTakenForEof ==
  /\ Mode(cfg) = "seq" /\ Done /\ result = "ok"
  /\ \E ch \in Chans(cfg) : \E p \in 1 .. MinLen :
       /\ files[ch][p].eventSize < HEADER_BYTES
       /\ \E i \in 1 .. Len(log.status) :
            log.status[i].kind = "readfail" /\ log.status[i].flags[ch]

\* a parallel run that ended in success past a bare header
ParallelSucceededPastHeaderOnly ==
  /\ Mode(cfg) = "par" /\ Done /\ result = "ok"
  /\ HeaderOnlyPositions # {}

\* ---------------------------------------------------------------- C28
\* C28: with max_events >= 0 the converter writes at most max_events events in
\* total, on every path and for any chunk size.
C28_AtMostMaxEventsWritten ==
  cfg.max_events >= 0 => Len(tree) <= cfg.max_events

\* The part of C28 that holds: the ASCII path, and the parallel path when one
\* chunk holds the whole input.
LimitHoldsOnAsciiPath ==
  (Mode(cfg) = "ascii" /\ cfg.max_events >= 0) => Len(tree) <= cfg.max_events

LimitHoldsWithinOneChunk ==
  (Mode(cfg) = "par" /\ cfg.max_events >= 0 /\ cfg.chunk_size >= MaxRecords)
    => Len(tree) <= cfg.max_events

\* an ASCII run cut at the limit
AsciiStoppedAtLimit ==
  /\ Mode(cfg) = "ascii" /\ Done /\ result = "ok"
  /\ cfg.max_events = 1 /\ MinLen = MaxRecords
  /\ Len(committed) = 1

\* a sequential and a parallel run that wrote more events than the limit
SequentialWroteBeyondLimit ==
  /\ Mode(cfg) = "seq" /\ Done /\ result = "ok"
  /\ cfg.max_events >= 0 /\ Len(committed) > cfg.max_events

ParallelWroteBeyondLimit ==
  /\ Mode(cfg) = "par" /\ Done /\ result = "ok"
  /\ cfg.max_events >= 0 /\ Len(committed) > cfg.max_events

\* ---------------------------------------------------------------- C29
\* the function has returned and every reader thread has been joined
ReturnedWithAllJoined ==
  /\ pc = "done"
  /\ \A t \in DOMAIN thr : thr[t].st = "none"

\* C29: for any finite channel files and any chunk_size and max_cores the
\* parallel ingestion terminates: the chunk loop exits and the function
\* returns with no reader thread left unjoined.
C29_ParallelIngestionReturns == <>ReturnedWithAllJoined

\* The part of C29 that holds: chunk sizes that are not negative.
ReturnsForNonNegativeChunkSize ==
  (cfg.chunk_size >= 0) ~> ReturnedWithAllJoined

\* the process ended by std::terminate with a reader thread not joined
TerminatedWithThreadUnjoined ==
  /\ pc = "terminated"
  /\ \E t \in DOMAIN thr : thr[t].st = "running"

\* a run of two rounds and one with a chunk size of 0, both returned
ReturnedAfterTwoRounds ==
  ReturnedWithAllJoined /\ Len(log.rounds) >= 2 /\ cfg.n_channels = 3

ReturnedWithChunkSizeZero ==
  ReturnedWithAllJoined /\ cfg.chunk_size = 0 /\ result = "fail"

\* ---------------------------------------------------------------- C30
\* the consecutive pairs of delivered events whose numbers are not successive
NonSuccessivePairs ==
  {k \in 1 .. (Len(delivered) - 1) : delivered[k + 1].event # delivered[k].event + 1}

\* C30: after any sequence of delivered events event_gaps_detected is the
\* number of consecutive delivered pairs whose event numbers are not
\* successive, and total_events_read is the number of events delivered.
C30_GapsAndTotalMatchDelivered ==
  mon # <<>> =>
    /\ mon.stats.event_gaps_detected = Cardinality(NonSuccessivePairs)
    /\ mon.stats.total_events_read = Len(delivered)

\* The part of C30 that holds: the total, and the gaps behind events whose
\* number is not 0.
TotalAndGapsBehindNonZero ==
  mon # <<>> =>
    /\ mon.stats.total_events_read = Len(delivered)
    /\ mon.stats.event_gaps_detected =
         Cardinality({k \in NonSuccessivePairs : delivered[k].event > 0})
    /\ Len(delivered) > 0
         => mon.stats.latest_event_number = delivered[Len(delivered)].event

\* two gaps counted in a sequence without an event 0
TwoGapsCounted ==
  /\ mon # <<>>
  /\ Len(delivered) = MaxDelivered
  /\ \A k \in 1 .. Len(delivered) : delivered[k].event > 0
  /\ Cardinality(NonSuccessivePairs) = 2
  /\ mon.stats.event_gaps_detected = 2

\* event 0 followed by event 2: a gap that is not counted
GapBehindEventZeroMissed ==
  /\ mon # <<>>
  /\ Len(delivered) = 2
  /\ delivered[1].event = 0 /\ delivered[2].event = 2
  /\ mon.stats.event_gaps_detected = 0

====
